---- MODULE Spec2Model ----
(***************************************************************************)
(* GhostStream ingestion pipeline (src/ingest.py, main): one run of the    *)
(* script as a state machine.  The external inspector (ffprobe), the       *)
(* external encoder (ffmpeg), the object store (R2) and the catalog store  *)
(* (Supabase) are the environment: what they return is chosen              *)
(* nondeterministically from small sets.                                   *)
(*                                                                         *)
(* Units: durations are in milliseconds, the thumbnail timestamp in tenths  *)
(* of a millisecond.  Strings that the code splits or normalises           *)
(* (the tag list) are sequences of one-character strings.                  *)
(***************************************************************************)
EXTENDS Integers, Sequences, FiniteSets, TLC

----------------------------------------------------------------------------
(* Bounds of the model *)

\* the largest number of rows the catalog store reports for the video insert
MaxReported == 2

\* the number of identifiers uuid4 can draw from
MaxObjIds == 2

----------------------------------------------------------------------------
(* Program constants *)

\* choose_cap: 600 s, in milliseconds
CapBoundary == 600000
CapShort == 720
CapLong == 480
\* thumbnail target height
ThumbHeight == 360
\* AES-256 key length in bytes
AesKeyLen == 32

\* Python's None (absent audio codec, absent scale filter, no value yet)
None == "<None>"

----------------------------------------------------------------------------
(* Media files as the inspector describes them *)

Mp4Family == <<"mov", "mp4", "m4a", "3gp", "3g2", "mj2">>
Matroska == <<"matroska", "webm">>

MediaFile(hv, vc, w, h, ac, fmt, d) ==
    [has_video |-> hv, codec_name |-> vc, width |-> w, height |-> h,
     audio |-> ac, format_name |-> fmt, duration |-> d]

\* a file the inspector finds no video stream in
Garbage == MediaFile(FALSE, "", 0, 0, None, <<>>, 0)

InputDims == {<<640, 360>>, <<1066, 600>>, <<1280, 720>>, <<1920, 1080>>}
OutputDims == {<<640, 360>>, <<852, 480>>, <<1920, 1080>>, <<1920, 360>>}
VideoCodecs == {"h264", "hevc"}
AudioCodecs == {"aac", "mp3", None}
Containers == {Mp4Family, Matroska}
InputDurations == {300000, 599999, 600000, 900000}
OutputDurations == {3000, 12345, 300000, 900000}

\* the files a user can hand to the script
InputFiles ==
    {MediaFile(TRUE, vc, d[1], d[2], ac, fmt, 300000) :
        vc \in VideoCodecs, d \in InputDims, ac \in AudioCodecs,
        fmt \in Containers}
    \cup {MediaFile(TRUE, "h264", d[1], d[2], "aac", Mp4Family, dur) :
            d \in InputDims, dur \in InputDurations}
    \cup {Garbage,
          MediaFile(TRUE, "H264", 1920, 1080, "AAC", <<"MOV", "MP4">>, 300000),
          MediaFile(TRUE, "h264", 0, 360, "aac", Mp4Family, 300000),
          MediaFile(TRUE, "h264", 640, 0, "aac", Mp4Family, 300000),
          MediaFile(TRUE, "h264", 640, 360, "aac", Mp4Family, 0)}

\* the files the external encoder can leave behind: anything
EncoderOutputs ==
    {MediaFile(TRUE, vc, d[1], d[2], ac, fmt, 300000) :
        vc \in VideoCodecs, d \in OutputDims, ac \in AudioCodecs,
        fmt \in Containers}
    \cup {MediaFile(TRUE, "h264", 640, 360, "aac", Mp4Family, dur) :
            dur \in OutputDurations}
    \cup {Garbage}

----------------------------------------------------------------------------
(* Pure functions of ingest.py *)

\* str.lower() on the names the inspector reports
LowerName(s) ==
    CASE s = "H264" -> "h264"
      [] s = "HEVC" -> "hevc"
      [] s = "AAC" -> "aac"
      [] s = "MP3" -> "mp3"
      [] s = "MOV" -> "mov"
      [] s = "MP4" -> "mp4"
      [] OTHER -> s

LowerNames(seq) == [i \in 1..Len(seq) |-> LowerName(seq[i])]

ProbeInfo(d, w, h, vc, ac, c) ==
    [duration_seconds |-> d, width |-> w, height |-> h,
     video_codec |-> vc, audio_codec |-> ac, container |-> c]

NoProbe == ProbeInfo(0, 0, 0, "", None, <<>>)

\* what the inspector process can do in one call of ffprobe(path): it is
\* not installed, or one of the three queries (video stream, audio stream,
\* format) exits non-zero, prints malformed JSON or reports a width, height
\* or duration that int() or float() rejects, or all three answer
Inspector ==
    {[found |-> FALSE, fails |-> "", how |-> ""],
     [found |-> TRUE, fails |-> "", how |-> ""]}
    \cup {[found |-> TRUE, fails |-> q, how |-> h] :
            q \in {"video", "audio", "format"}, h \in {"exit", "json"}}
    \cup {[found |-> TRUE, fails |-> q, how |-> "value"] :
            q \in {"video", "format"}}

\* run_json: the error of a failed query
QueryError(how) ==
    IF how = "exit" THEN "Command failed: ffprobe"
    ELSE IF how = "json" THEN "Failed to parse JSON output: ffprobe"
    ELSE "ValueError: ffprobe"

ProbeFailure(e) == [ok |-> FALSE, err |-> e, info |-> NoProbe]

\* fault variant of ffprobe: the duration is not checked
ffprobeNoDurationCheck(insp, f) ==
    IF ~insp.found THEN ProbeFailure("ffprobe not found")
    ELSE IF insp.fails = "video" /\ insp.how # "value"
        THEN ProbeFailure(QueryError(insp.how))
    ELSE IF ~f.has_video THEN ProbeFailure("No video stream found")
    ELSE IF insp.fails = "video" THEN ProbeFailure(QueryError(insp.how))
    ELSE IF f.width <= 0 \/ f.height <= 0
        THEN ProbeFailure("Invalid video dimensions")
    ELSE IF insp.fails \in {"audio", "format"}
        THEN ProbeFailure(QueryError(insp.how))
    ELSE [ok |-> TRUE, err |-> "",
          info |-> ProbeInfo(f.duration, f.width, f.height,
                             LowerName(f.codec_name),
                             IF f.audio = None THEN None ELSE LowerName(f.audio),
                             LowerNames(f.format_name))]

\* ffprobe(path): the three inspection queries and their checks, in order
ffprobe(insp, f) ==
    IF ~insp.found THEN ProbeFailure("ffprobe not found")
    ELSE IF insp.fails = "video" /\ insp.how # "value"
        THEN ProbeFailure(QueryError(insp.how))
    ELSE IF ~f.has_video THEN ProbeFailure("No video stream found")
    ELSE IF insp.fails = "video" THEN ProbeFailure(QueryError(insp.how))
    ELSE IF f.width <= 0 \/ f.height <= 0
        THEN ProbeFailure("Invalid video dimensions")
    ELSE IF insp.fails \in {"audio", "format"}
        THEN ProbeFailure(QueryError(insp.how))
    ELSE IF f.duration <= 0 THEN ProbeFailure("Invalid duration")
    ELSE [ok |-> TRUE, err |-> "",
          info |-> ProbeInfo(f.duration, f.width, f.height,
                             LowerName(f.codec_name),
                             IF f.audio = None THEN None ELSE LowerName(f.audio),
                             LowerNames(f.format_name))]

InSeq(x, s) == \E i \in 1..Len(s) : s[i] = x

\* is_mp4_container: "mp4" or "mov" among the comma-separated aliases
is_mp4_container(container) ==
    InSeq("mp4", container) \/ InSeq("mov", container)

\* fault variant of choose_cap: the boundary belongs to the upper cap
choose_cap_inclusive(duration_seconds) ==
    IF duration_seconds <= CapBoundary THEN CapShort ELSE CapLong

choose_cap(duration_seconds) ==
    IF duration_seconds < CapBoundary THEN CapShort ELSE CapLong

\* make_scale_filter(cap): scale=-2:'min(cap,ih)'
make_scale_filter(cap) == [kind |-> "scale_min_ih", cap |-> cap]

\* lines 293-297
InputIsCompliant(inp) ==
    /\ is_mp4_container(inp.container)
    /\ inp.video_codec = "h264"
    /\ inp.audio_codec \in {"aac", None}

\* fault variant of WillReencode: "and" written for "or"
WillReencodeAnd(skip_compress, compliant) == (~skip_compress) /\ (~compliant)

\* line 298
WillReencode(skip_compress, compliant) == (~skip_compress) \/ (~compliant)

NoFilter == [kind |-> "none", cap |-> 0]

\* f"{ts:.2f}": a timestamp in tenths of a millisecond, rounded to
\* hundredths of a second (half to even)
FormatCentis(ts) ==
    LET q == ts \div 100
        r == ts % 100
    IN IF r < 50 THEN q
       ELSE IF r > 50 THEN q + 1
       ELSE IF q % 2 = 0 THEN q ELSE q + 1

\* an encoder command: ss is the seek timestamp computed, ss_arg the -ss
\* argument as formatted on the command line
Cmd(mode, ss, vf, audio) ==
    [prog |-> "ffmpeg", mode |-> mode, ss |-> ss, ss_arg |-> FormatCentis(ss),
     vf |-> vf, audio |-> audio, faststart |-> mode # "thumb"]

\* fault variant of TranscodeCmd: the scale filter is always passed
TranscodeCmdAlwaysScale(skip_compress, compliant, inp, cap) ==
    IF skip_compress /\ compliant
    THEN Cmd("copy", 0, NoFilter, "copy")
    ELSE Cmd("libx264", 0, make_scale_filter(cap),
             IF inp.audio_codec = None THEN "an" ELSE "aac")

\* fault variant of TranscodeCmd: the audio is always re-encoded
TranscodeCmdAlwaysAac(skip_compress, compliant, inp, cap) ==
    IF skip_compress /\ compliant
    THEN Cmd("copy", 0, NoFilter, "copy")
    ELSE Cmd("libx264", 0,
             IF inp.height > cap THEN make_scale_filter(cap) ELSE NoFilter,
             "aac")

\* lines 308-351: the encoder command of the chosen path
TranscodeCmd(skip_compress, compliant, inp, cap) ==
    IF skip_compress /\ compliant
    THEN Cmd("copy", 0, NoFilter, "copy")
    ELSE Cmd("libx264", 0,
             IF inp.height > cap THEN make_scale_filter(cap) ELSE NoFilter,
             IF inp.audio_codec = None THEN "an" ELSE "aac")

\* fault variant of ValidateOutput: the codecs are checked before the
\* dimensions
ValidateOutputCodecFirst(inp, out) ==
    IF out.video_codec # "h264"
        THEN [passed |-> 0, err |-> "Output video codec not H.264"]
    ELSE IF out.audio_codec \notin {"aac", None}
        THEN [passed |-> 1, err |-> "Output audio codec not AAC"]
    ELSE IF out.height > inp.height
        THEN [passed |-> 2, err |-> "NO-UPSCALE violated: height"]
    ELSE IF out.width > inp.width
        THEN [passed |-> 3, err |-> "NO-UPSCALE violated: width"]
    ELSE IF ~is_mp4_container(out.container)
        THEN [passed |-> 4, err |-> "Output container not MP4/MOV"]
    ELSE [passed |-> 5, err |-> ""]

\* fault variant of ValidateOutput: the width check is missing
ValidateOutputNoWidth(inp, out) ==
    IF out.height > inp.height
        THEN [passed |-> 0, err |-> "NO-UPSCALE violated: height"]
    ELSE IF out.video_codec # "h264"
        THEN [passed |-> 2, err |-> "Output video codec not H.264"]
    ELSE IF out.audio_codec \notin {"aac", None}
        THEN [passed |-> 3, err |-> "Output audio codec not AAC"]
    ELSE IF ~is_mp4_container(out.container)
        THEN [passed |-> 4, err |-> "Output container not MP4/MOV"]
    ELSE [passed |-> 5, err |-> ""]

\* lines 357-372: the validator's checks in order; the number of checks
\* passed and the error of the first that fails
ValidateOutput(inp, out) ==
    IF out.height > inp.height
        THEN [passed |-> 0, err |-> "NO-UPSCALE violated: height"]
    ELSE IF out.width > inp.width
        THEN [passed |-> 1, err |-> "NO-UPSCALE violated: width"]
    ELSE IF out.video_codec # "h264"
        THEN [passed |-> 2, err |-> "Output video codec not H.264"]
    ELSE IF out.audio_codec \notin {"aac", None}
        THEN [passed |-> 3, err |-> "Output audio codec not AAC"]
    ELSE IF ~is_mp4_container(out.container)
        THEN [passed |-> 4, err |-> "Output container not MP4/MOV"]
    ELSE [passed |-> 5, err |-> ""]

Min(a, b) == IF a < b THEN a ELSE b
Max(a, b) == IF a > b THEN a ELSE b

\* the height the encoder gives a frame of height ih under a filter:
\* scale=-2:'min(cap,ih)' evaluates min(cap, ih)
ScaledHeight(vf, ih) ==
    IF vf.kind = "scale_min_ih" THEN Min(vf.cap, ih) ELSE ih

\* line 375: min(max(0.5, d * 0.1), 5.0), in tenths of a millisecond
ThumbMin == 5000
ThumbMax == 50000
\* fault variant of ThumbTs: no lower clamp
ThumbTsNoFloor(duration_seconds) == Min(duration_seconds, ThumbMax)

ThumbTs(duration_seconds) == Min(Max(ThumbMin, duration_seconds), ThumbMax)

\* lines 375-392: the thumbnail capture command
ThumbCmd(out) ==
    Cmd("thumb", ThumbTs(out.duration_seconds),
        IF out.height > ThumbHeight
            THEN [kind |-> "scale", cap |-> ThumbHeight] ELSE NoFilter,
        "none")

\* int(round(seconds)): round half to even, from milliseconds
RoundSeconds(d) ==
    LET q == d \div 1000
        r == d % 1000
    IN IF r < 500 THEN q
       ELSE IF r > 500 THEN q + 1
       ELSE IF q % 2 = 0 THEN q ELSE q + 1

----------------------------------------------------------------------------
(* Tags: strings are sequences of one-character strings *)

Lower(c) ==
    CASE c = "B" -> "b"
      [] c = "S" -> "s"
      [] OTHER -> c

IsSpace(c) == c = " "

\* str.lower()
LowerStr(s) == [i \in 1..Len(s) |-> Lower(s[i])]

\* str.strip(): drop leading and trailing whitespace
Strip(s) ==
    IF \A i \in 1..Len(s) : IsSpace(s[i]) THEN <<>>
    ELSE SubSeq(s,
                CHOOSE a \in 1..Len(s) :
                    ~IsSpace(s[a]) /\ \A j \in 1..(a - 1) : IsSpace(s[j]),
                CHOOSE b \in 1..Len(s) :
                    ~IsSpace(s[b]) /\ \A j \in (b + 1)..Len(s) : IsSpace(s[j]))

\* the positions of the commas of s, and 0 and Len(s) + 1 around them
Cuts(s) == {0, Len(s) + 1} \cup {i \in 1..Len(s) : s[i] = ","}

\* the k-th of the cuts from the left, k = 1 being position 0
Cut(cuts, k) ==
    CHOOSE c \in cuts : Cardinality({d \in cuts : d < c}) = k - 1

\* str.split(","): the pieces between commas, empty pieces kept
SplitComma(s) ==
    CHOOSE pieces \in
        {[k \in 1..(Cardinality(cuts) - 1) |->
            SubSeq(s, Cut(cuts, k) + 1, Cut(cuts, k + 1) - 1)] :
         cuts \in {Cuts(s)}} : TRUE

normalize_tag(tag) == LowerStr(Strip(tag))

\* line 401: raw_tags, each piece stripped
RawTags(tags) ==
    CHOOSE raw_tags \in
        {[k \in 1..Len(pieces) |-> Strip(pieces[k])] :
         pieces \in {SplitComma(tags)}} : TRUE

\* fault variant of TagTokens: a token that occurred before is dropped
TagTokensDedup(tags) ==
    CHOOSE tag_tokens \in
        {LET keep == {i \in 1..Len(t) : \A j \in 1..(i - 1) : t[j] # t[i]}
         IN [k \in 1..Cardinality(keep) |->
                t[CHOOSE i \in keep :
                    Cardinality({j \in keep : j < i}) = k - 1]] :
         t \in {SelectSeq([k \in 1..Len(raw_tags) |->
                              normalize_tag(raw_tags[k])],
                          LAMBDA x : x # <<>>) :
                 raw_tags \in {RawTags(tags)}}} : TRUE

\* fault variant of TagTokens: empty tokens are kept
TagTokensKeepEmpty(tags) ==
    CHOOSE tag_tokens \in
        {[k \in 1..Len(raw_tags) |-> normalize_tag(raw_tags[k])] :
         raw_tags \in {RawTags(tags)}} : TRUE

\* line 402: the non-empty normalized tokens, in order
TagTokens(tags) ==
    CHOOSE tag_tokens \in
        {SelectSeq([k \in 1..Len(raw_tags) |-> normalize_tag(raw_tags[k])],
                   LAMBDA t : t # <<>>) :
         raw_tags \in {RawTags(tags)}} : TRUE

\* base64 and UTF-8: encodings with an inverse
bytes_to_b64(b) == [b64 |-> b]
b64_decode(s) == s.b64
Utf8(str) == [utf8 |-> str]
Utf8Decode(b) == b.utf8

\* b64_to_bytes(key): base64.b64decode raises on a malformed string
B64Error == "binascii.Error: Incorrect padding"

\* hmac.new(key, msg, sha256).hexdigest(): a function of key and message, and
\* of nothing else
hmac_sha256(key, msg) == [alg |-> "hmac-sha256", key |-> key, msg |-> msg]

NoDigest == [alg |-> "none", key |-> "", msg |-> <<>>]

\* fault variant of compute_tag_hmac_hex: the tag is hashed as given
compute_tag_hmac_hex_raw(tag, key) ==
    LET token == normalize_tag(tag)
    IN IF ~key.b64 THEN [ok |-> FALSE, err |-> B64Error, digest |-> NoDigest]
       ELSE IF token = <<>>
       THEN [ok |-> FALSE, err |-> "Empty tag token after normalization",
             digest |-> NoDigest]
       ELSE [ok |-> TRUE, err |-> "", digest |-> hmac_sha256(key.id, tag)]

\* compute_tag_hmac_hex: decode the key, normalize the tag, hash the token
compute_tag_hmac_hex(tag, key) ==
    LET token == normalize_tag(tag)
    IN IF ~key.b64 THEN [ok |-> FALSE, err |-> B64Error, digest |-> NoDigest]
       ELSE IF token = <<>>
       THEN [ok |-> FALSE, err |-> "Empty tag token after normalization",
             digest |-> NoDigest]
       ELSE [ok |-> TRUE, err |-> "", digest |-> hmac_sha256(key.id, token)]

\* line 406
TagHmacs(tokens, key) ==
    [i \in 1..Len(tokens) |-> compute_tag_hmac_hex(tokens[i], key).digest]

----------------------------------------------------------------------------
(* Title encryption *)

\* AESGCM(key).encrypt(iv, data, aad): ciphertext and tag are determined by
\* key, nonce, plaintext and associated data
AESGCM_encrypt(key, iv, data, aad) ==
    [alg |-> "A256GCM", key |-> key, iv |-> iv, aad |-> aad, pt |-> data]

NoEnvelope ==
    [v |-> 0, alg |-> "", iv_b64 |-> bytes_to_b64(""),
     ct_b64 |-> bytes_to_b64(AESGCM_encrypt("", "", Utf8(""), None))]

EncryptFailure(e) == [ok |-> FALSE, err |-> e, env |-> NoEnvelope]

\* fault variant of encrypt_title_envelope_b64: every key length AES-GCM
\* takes is accepted
encrypt_title_any_aes(title, key, iv) ==
    IF ~key.b64 THEN EncryptFailure(B64Error)
    ELSE IF key.len \notin {16, 24, 32}
    THEN EncryptFailure("GS_AES_KEY_B64 must decode to 32 bytes")
    ELSE [ok |-> TRUE, err |-> "",
          env |-> [v |-> 1, alg |-> "A256GCM", iv_b64 |-> bytes_to_b64(iv),
                   ct_b64 |-> bytes_to_b64(
                        AESGCM_encrypt(key.id, iv, Utf8(title), None))]]

\* fault variant of encrypt_title_envelope_b64: the envelope carries a nonce
\* drawn after the one the title was encrypted with
encrypt_title_other_nonce(title, key, iv) ==
    IF ~key.b64 THEN EncryptFailure(B64Error)
    ELSE IF key.len # AesKeyLen
    THEN EncryptFailure("GS_AES_KEY_B64 must decode to 32 bytes")
    ELSE [ok |-> TRUE, err |-> "",
          env |-> [v |-> 1, alg |-> "A256GCM",
                   iv_b64 |-> bytes_to_b64("iv-next"),
                   ct_b64 |-> bytes_to_b64(
                        AESGCM_encrypt(key.id, iv, Utf8(title), None))]]

\* encrypt_title_envelope_b64: fails unless the key decodes to 32 bytes; the
\* envelope holds the nonce and the ciphertext of the UTF-8 title
encrypt_title_envelope_b64(title, key, iv) ==
    IF ~key.b64 THEN EncryptFailure(B64Error)
    ELSE IF key.len # AesKeyLen
    THEN EncryptFailure("GS_AES_KEY_B64 must decode to 32 bytes")
    ELSE [ok |-> TRUE, err |-> "",
          env |-> [v |-> 1, alg |-> "A256GCM", iv_b64 |-> bytes_to_b64(iv),
                   ct_b64 |-> bytes_to_b64(
                        AESGCM_encrypt(key.id, iv, Utf8(title), None))]]

\* AES-GCM decryption: the tag authenticates key, nonce and associated data
AESGCM_decrypt(key, iv, ct, aad) ==
    IF ct.alg = "A256GCM" /\ ct.key = key /\ ct.iv = iv /\ ct.aad = aad
    THEN [ok |-> TRUE, data |-> ct.pt]
    ELSE [ok |-> FALSE, data |-> Utf8("")]

\* reading an envelope back: decode nonce and ciphertext, decrypt, decode
decrypt_title_envelope(env, key) ==
    LET r == AESGCM_decrypt(key.id, b64_decode(env.iv_b64),
                            b64_decode(env.ct_b64), None)
    IN [ok |-> r.ok, title |-> Utf8Decode(r.data)]

\* the values the environment can hold for a key variable: unset, not
\* base64, or the base64 of len bytes
NoKey == [id |-> None, len |-> 0, b64 |-> TRUE]
AesKeys ==
    {NoKey, [id |-> "kbad", len |-> 0, b64 |-> FALSE],
     [id |-> "k16", len |-> 16, b64 |-> TRUE],
     [id |-> "k32", len |-> 32, b64 |-> TRUE]}
HmacKeys ==
    {NoKey, [id |-> "hbad", len |-> 0, b64 |-> FALSE],
     [id |-> "h32", len |-> 32, b64 |-> TRUE]}

----------------------------------------------------------------------------
(* Object store and catalog store *)

\* fault variant of upload_file_r2: a failed put empties the bucket of what
\* the run has stored (a compensating delete)
upload_file_r2_rollback(store, calls, key, body, content_type, dry_run, put_ok) ==
    IF dry_run
    THEN [store |-> store, calls |-> calls, raised |-> FALSE]
    ELSE [store |-> IF put_ok
                    THEN {o \in store : o.key # key}
                         \cup {[key |-> key, body |-> body,
                                content_type |-> content_type]}
                    ELSE {},
          calls |-> Append(calls, key),
          raised |-> ~put_ok]

\* fault variant of upload_file_r2: a failed put is swallowed
upload_file_r2_swallow(store, calls, key, body, content_type, dry_run, put_ok) ==
    IF dry_run
    THEN [store |-> store, calls |-> calls, raised |-> FALSE]
    ELSE [store |-> IF put_ok
                    THEN {o \in store : o.key # key}
                         \cup {[key |-> key, body |-> body,
                                content_type |-> content_type]}
                    ELSE store,
          calls |-> Append(calls, key),
          raised |-> FALSE]

\* fault variant of upload_file_r2: dry_run is not looked at
upload_file_r2_always(store, calls, key, body, content_type, dry_run, put_ok) ==
    [store |-> IF put_ok
               THEN {o \in store : o.key # key}
                    \cup {[key |-> key, body |-> body,
                           content_type |-> content_type]}
               ELSE store,
     calls |-> Append(calls, key),
     raised |-> ~put_ok]

\* upload_file_r2: nothing is sent on a dry run; otherwise one put is issued,
\* which stores the object or raises
upload_file_r2(store, calls, key, body, content_type, dry_run, put_ok) ==
    IF dry_run
    THEN [store |-> store, calls |-> calls, raised |-> FALSE]
    ELSE [store |-> IF put_ok
                    THEN {o \in store : o.key # key}
                         \cup {[key |-> key, body |-> body,
                                content_type |-> content_type]}
                    ELSE store,
          calls |-> Append(calls, key),
          raised |-> ~put_ok]

\* fault variant of InsertAccepted: any non-empty answer is accepted
InsertAcceptedNonEmpty(has_data, n) == has_data /\ n >= 1

\* line 442: the response is accepted only with exactly one row
InsertAccepted(has_data, n) == ~((~(has_data /\ n # 0)) \/ n # 1)

----------------------------------------------------------------------------
(* One run of main() *)

VARIABLES
    pc,               \* the statement of main() about to run
    stages,           \* the orchestrator stages entered so far, in order
    args,             \* the parsed command line
    src,              \* the input file
    inp,              \* ProbeInfo of the input
    plan,             \* cap, input_is_compliant, will_reencode
    work,             \* the temporary directory and the files in it
    out_info,         \* ProbeInfo of the output
    checks_passed,    \* validator checks passed on out_info
    ffmpeg_log,       \* the encoder commands issued
    keys,             \* aes_key_b64, tag_key_b64 as read from the environment
    title_enc,
    tag_tokens,
    tag_hmacs,
    obj,              \* obj_id, video_key, thumb_key
    r2,               \* r2_bucket and the client
    r2_store,         \* the objects in the bucket
    r2_calls,         \* the puts issued to the object store
    sb,               \* the catalog client
    video_row,
    videos,           \* the rows of table videos
    video_tag_tokens, \* the rows of table video_tag_tokens
    sb_calls,         \* the inserts issued to the catalog store
    inserted,         \* the catalog store's answer to the videos insert
    video_id,
    error,            \* the exception main() ended with
    exit_code,
    runs,             \* two ingestions side by side: where each one is
    tmp,              \* the temporary directories on disk and their files
    bucket,           \* the objects in the bucket the two ingestions share
    tree,             \* BulkTab: the rows of the video list, in order
    is_processing,
    should_stop,
    start_btn,        \* the state of the three action buttons
    test_btn,
    stop_btn,
    worker,           \* the thread running _process_queue
    after_q,          \* callbacks handed to the Tk main loop with after(0, f)
    trace             \* what has happened in the current bulk run

mainVars ==
    <<pc, stages, args, src, inp, plan, work, out_info, checks_passed,
      ffmpeg_log, keys, title_enc, tag_tokens, tag_hmacs, obj, r2, r2_store,
      r2_calls, sb, video_row, videos, video_tag_tokens, sb_calls, inserted,
      video_id, error, exit_code>>

pairVars == <<runs, tmp, bucket>>

bulkVars ==
    <<tree, is_processing, should_stop, start_btn, test_btn, stop_btn, worker,
      after_q, trace>>

vars == <<mainVars, pairVars, bulkVars>>

probeVars == <<src, inp, plan>>
encodeVars == <<out_info, checks_passed, ffmpeg_log>>
protectVars == <<keys, title_enc, tag_tokens, tag_hmacs, obj>>
r2Vars == <<r2, r2_store, r2_calls>>
sbVars ==
    <<sb, video_row, videos, video_tag_tokens, sb_calls, inserted, video_id>>

\* the raw --tags values tried: " , ,"  "B, b ,,s"  "b"  ", S "
TagInputs ==
    {<<" ", ",", " ", ",">>,
     <<"B", ",", " ", "b", " ", ",", ",", "s">>,
     <<"b">>,
     <<",", " ", "S", " ">>}

Title == "Title"

\* the identifier the catalog store assigns to the row
ServerId == "id-1"

\* fault variant of TagRows: the token is stored in place of its digest
TagRowsPlain(id, hmacs) ==
    [i \in 1..Len(hmacs) |->
        [video_id |-> id,
         tag_hmac |-> [alg |-> "plain", key |-> "", msg |-> hmacs[i].msg]]]

\* line 446
TagRows(id, hmacs) ==
    [i \in 1..Len(hmacs) |-> [video_id |-> id, tag_hmac |-> hmacs[i]]]

\* fault variant of Order: the uploads come before the validator
OrderUploadBeforeValidate ==
    <<"check_src", "ensure_ffmpeg", "probe_in", "plan", "mktemp", "transcode",
      "upload_video", "upload_thumb", "probe_out", "validate", "thumbnail",
      "read_keys", "encrypt", "index_tags", "prepare_keys", "r2_config",
      "sb_client", "build_row", "dry_check", "insert_video",
      "insert_tags", "finish", "Done">>

\* fault variant of Order: the thumbnail is captured before validation
OrderThumbBeforeValidate ==
    <<"check_src", "ensure_ffmpeg", "probe_in", "plan", "mktemp", "transcode",
      "thumbnail", "probe_out", "validate", "read_keys", "encrypt",
      "index_tags", "prepare_keys", "r2_config", "upload_video",
      "upload_thumb", "sb_client", "build_row", "dry_check", "insert_video",
      "insert_tags", "finish", "Done">>

\* fault variant of Order: the tag rows are inserted before the video row
OrderTagsBeforeVideo ==
    <<"check_src", "ensure_ffmpeg", "probe_in", "plan", "mktemp", "transcode",
      "probe_out", "validate", "thumbnail", "read_keys", "encrypt",
      "index_tags", "prepare_keys", "r2_config", "upload_video",
      "upload_thumb", "sb_client", "build_row", "dry_check", "insert_tags",
      "insert_video", "finish", "Done">>

\* fault variant of Order: the workspace is created before the input is
\* probed
OrderWorkspaceFirst ==
    <<"check_src", "ensure_ffmpeg", "mktemp", "probe_in", "plan", "transcode",
      "probe_out", "validate", "thumbnail", "read_keys", "encrypt",
      "index_tags", "prepare_keys", "r2_config", "upload_video",
      "upload_thumb", "sb_client", "build_row", "dry_check", "insert_video",
      "insert_tags", "finish", "Done">>

\* the statements of main() in program order
Order ==
    <<"check_src", "ensure_ffmpeg", "probe_in", "plan", "mktemp", "transcode",
      "probe_out", "validate", "thumbnail", "read_keys", "encrypt",
      "index_tags", "prepare_keys", "r2_config", "upload_video",
      "upload_thumb", "sb_client", "build_row", "dry_check", "insert_video",
      "insert_tags", "finish", "Done">>

\* fault variant of NextPc: after the row is built control goes back to the
\* catalog client
NextPcLoop(p) ==
    LET i == CHOOSE k \in 1..Len(Order) : Order[k] = p
    IN IF p = "build_row" THEN "sb_client" ELSE Order[i + 1]

\* sequential composition: the statement after p
NextPc(p) ==
    LET i == CHOOSE k \in 1..Len(Order) : Order[k] = p
    IN Order[i + 1]

\* the orchestrator stage a statement belongs to
Stage(p) ==
    CASE p \in {"check_src", "ensure_ffmpeg", "probe_in"} -> "Probing"
      [] p = "plan" -> "Planning"
      [] p \in {"mktemp", "transcode"} -> "Transcoding"
      [] p \in {"probe_out", "validate"} -> "Validating"
      [] p = "thumbnail" -> "Thumbnailing"
      [] p \in {"read_keys", "encrypt", "index_tags", "prepare_keys"}
            -> "Protecting"
      [] p \in {"r2_config", "upload_video", "upload_thumb"} -> "Uploading"
      [] p \in {"sb_client", "build_row", "dry_check", "insert_video",
                "insert_tags", "finish"} -> "Committing"
      [] OTHER -> p

Terminal == {"Done", "Failed"}

NoWork == [state |-> "none", has_mp4 |-> FALSE, out_mp4 |-> Garbage,
           has_jpg |-> FALSE, out_jpg |-> Garbage]

\* fault variant of Cleanup: the directory is left behind
CleanupLeak(w) == w

\* leaving the TemporaryDirectory block removes the directory and its files
Cleanup(w) ==
    IF w.state = "exists" THEN [NoWork EXCEPT !.state = "removed"] ELSE w

Enter(st, p) == IF Stage(p) # Stage(pc) THEN Append(st, Stage(p)) ELSE st

\* control moves on to statement p
Goto(p) ==
    /\ pc' = p
    /\ stages' = Enter(stages, p)
    /\ UNCHANGED <<error, exit_code, pairVars, bulkVars>>

Step == Goto(NextPc(pc)) /\ UNCHANGED work

\* an exception leaves main(): the with block is exited on the way out
Fail(e) ==
    /\ pc' = "Failed"
    /\ stages' = Append(stages, "Failed")
    /\ error' = e
    /\ exit_code' = 1
    /\ work' = Cleanup(work)
    /\ UNCHANGED <<pairVars, bulkVars>>

\* return 0
Return ==
    /\ pc' = "Done"
    /\ stages' = Append(stages, "Done")
    /\ exit_code' = 0
    /\ work' = Cleanup(work)
    /\ UNCHANGED <<error, pairVars, bulkVars>>

\* no answer yet
NoResponse == [answered |-> FALSE, has_data |-> FALSE, n |-> 0]

NoObj == [obj_id |-> 0, video_key |-> <<>>, thumb_key |-> <<>>]
NoRow ==
    [title_enc |-> NoEnvelope, duration_seconds |-> 0, width |-> 0,
     height |-> 0, r2_bucket |-> "", r2_video_key |-> <<>>,
     r2_thumb_key |-> <<>>, published |-> FALSE]

\* the two ingestions of the side-by-side model, named after the tab that
\* starts them
Runs == {"single", "bulk"}

\* bound: the directory names mkdtemp can draw
MaxDirs == 2
DirNames == 1..MaxDirs

NoFile == "none"
NoDir == [exists |-> FALSE, out_mp4 |-> NoFile, thumb_jpg |-> NoFile]
IdleRun == [pc |-> "idle", td |-> 0, obj |-> NoObj, read |-> {}]

MainInit ==
    /\ pc = "check_src"
    /\ stages = <<"Probing">>
    /\ args \in [skip_compress : BOOLEAN, dry_run : BOOLEAN,
                  tags : TagInputs, title : {Title}]
    /\ src = Garbage
    /\ inp = NoProbe
    /\ plan = [cap |-> 0, input_is_compliant |-> FALSE, will_reencode |-> FALSE]
    /\ work = NoWork
    /\ out_info = NoProbe
    /\ checks_passed = 0
    /\ ffmpeg_log = <<>>
    /\ keys = [aes |-> NoKey, tag |-> NoKey]
    /\ title_enc = NoEnvelope
    /\ tag_tokens = <<>>
    /\ tag_hmacs = <<>>
    /\ obj = NoObj
    /\ r2 = [bucket |-> "", client |-> FALSE]
    /\ r2_store = {}
    /\ r2_calls = <<>>
    /\ sb = FALSE
    /\ video_row = NoRow
    /\ videos = {}
    /\ video_tag_tokens = <<>>
    /\ sb_calls = <<>>
    /\ inserted = NoResponse
    /\ video_id = ""
    /\ error = ""
    /\ exit_code = -1

PairIdle ==
    /\ runs = [r \in Runs |-> IdleRun]
    /\ tmp = [d \in DirNames |-> NoDir]
    /\ bucket = {}

\* bound: the video files the user can add to the list
MaxItems == 3
Paths == 1..MaxItems

\* bound: the bulk runs the user starts
MaxBulkRuns == 2

NoThread == [pc |-> "none", items |-> <<>>, idx |-> 0, completed |-> 0,
             failed |-> 0, skipped |-> 0, dry_run |-> FALSE, run |-> 0]

\* BulkTab.__init__ and _create_widgets
BulkIdle ==
    /\ tree = <<>>
    /\ is_processing = FALSE
    /\ should_stop = FALSE
    /\ start_btn = "normal"
    /\ test_btn = "normal"
    /\ stop_btn = "disabled"
    /\ worker = NoThread
    /\ after_q = <<>>
    /\ trace = <<>>

Init == MainInit /\ PairIdle /\ BulkIdle

----------------------------------------------------------------------------
(* The statements of main() *)

\* lines 284-286
CheckSource ==
    /\ pc = "check_src"
    /\ \E exists \in BOOLEAN :
        IF exists
        THEN /\ \E f \in InputFiles : src' = f
             /\ Step
        ELSE /\ Fail("File not found")
             /\ UNCHANGED src
    /\ UNCHANGED <<args, inp, plan, encodeVars, protectVars, r2Vars, sbVars>>

\* line 288
EnsureFfmpeg ==
    /\ pc = "ensure_ffmpeg"
    /\ \E found \in BOOLEAN :
        IF found THEN Step ELSE Fail("ffmpeg not found")
    /\ UNCHANGED <<args, probeVars, encodeVars, protectVars, r2Vars, sbVars>>

\* line 290
ProbeInput ==
    /\ pc = "probe_in"
    /\ \E insp \in Inspector :
        LET r == ffprobe(insp, src)
        IN IF r.ok
           THEN inp' = r.info /\ Step
           ELSE Fail(r.err) /\ UNCHANGED inp
    /\ UNCHANGED <<args, src, plan, encodeVars, protectVars, r2Vars, sbVars>>

\* lines 291-300
\* lines 291-300, reading the options from a
PlanWith(a) ==
    /\ pc = "plan"
    /\ plan' = [cap |-> choose_cap(inp.duration_seconds),
                input_is_compliant |-> InputIsCompliant(inp),
                will_reencode |->
                    WillReencode(a.skip_compress, InputIsCompliant(inp))]
    /\ Step
    /\ UNCHANGED <<args, src, inp, encodeVars, protectVars, r2Vars, sbVars>>

Plan == PlanWith(args)

\* lines 303-306
CreateWorkspace ==
    /\ pc = "mktemp"
    /\ work' = [NoWork EXCEPT !.state = "exists"]
    /\ Goto(NextPc(pc))
    /\ UNCHANGED <<args, probeVars, encodeVars, protectVars, r2Vars, sbVars>>

\* lines 308-352
\* fault variant of TranscodeWith: a dry run encodes nothing
TranscodeWithDry(a) ==
    /\ pc = "transcode"
    /\ IF a.dry_run
       THEN /\ ffmpeg_log' = ffmpeg_log
            /\ work' = work
            /\ Goto(NextPc(pc))
       ELSE /\ ffmpeg_log' = Append(ffmpeg_log,
                    TranscodeCmd(a.skip_compress, plan.input_is_compliant,
                                 inp, plan.cap))
            /\ \E rc \in {0, 1} :
                IF rc = 0
                THEN /\ \E f \in EncoderOutputs :
                            work' = [work EXCEPT !.has_mp4 = TRUE,
                                                 !.out_mp4 = f]
                     /\ Goto(NextPc(pc))
                ELSE Fail("Command failed: ffmpeg transcode")
    /\ UNCHANGED <<args, probeVars, out_info, checks_passed, protectVars,
                   r2Vars, sbVars>>

\* lines 308-352, reading the options from a
TranscodeWith(a) ==
    /\ pc = "transcode"
    /\ ffmpeg_log' = Append(ffmpeg_log,
            TranscodeCmd(a.skip_compress, plan.input_is_compliant, inp,
                         plan.cap))
    /\ \E rc \in {0, 1} :
        IF rc = 0
        THEN /\ \E f \in EncoderOutputs :
                    work' = [work EXCEPT !.has_mp4 = TRUE, !.out_mp4 = f]
             /\ Goto(NextPc(pc))
        ELSE Fail("Command failed: ffmpeg transcode")
    /\ UNCHANGED <<args, probeVars, out_info, checks_passed, protectVars,
                   r2Vars, sbVars>>

Transcode == TranscodeWith(args)

\* line 354
ProbeOutput ==
    /\ pc = "probe_out"
    /\ \E insp \in Inspector :
        LET r == ffprobe(insp, work.out_mp4)
        IN IF r.ok
           THEN out_info' = r.info /\ Step
           ELSE Fail(r.err) /\ UNCHANGED out_info
    /\ UNCHANGED <<args, probeVars, checks_passed, ffmpeg_log, protectVars,
                   r2Vars, sbVars>>

\* lines 356-372
Validate ==
    /\ pc = "validate"
    /\ LET v == ValidateOutput(inp, out_info)
       IN /\ checks_passed' = v.passed
          /\ IF v.err = "" THEN Step ELSE Fail(v.err)
    /\ UNCHANGED <<args, probeVars, out_info, ffmpeg_log, protectVars, r2Vars,
                   sbVars>>

\* the still image the capture command leaves behind
ThumbFile(out) ==
    IF out.height > ThumbHeight
    THEN MediaFile(TRUE, "mjpeg",
                   2 * ((out.width * ThumbHeight) \div (2 * out.height)),
                   ThumbHeight, None, <<"image2">>, 0)
    ELSE MediaFile(TRUE, "mjpeg", out.width, out.height, None, <<"image2">>, 0)

\* lines 374-393
Thumbnail ==
    /\ pc = "thumbnail"
    /\ ffmpeg_log' = Append(ffmpeg_log, ThumbCmd(out_info))
    /\ \E rc \in {0, 1} :
        IF rc = 0
        THEN /\ work' = [work EXCEPT !.has_jpg = TRUE,
                                     !.out_jpg = ThumbFile(out_info)]
             /\ Goto(NextPc(pc))
        ELSE Fail("Command failed: ffmpeg thumbnail")
    /\ UNCHANGED <<args, probeVars, out_info, checks_passed, protectVars,
                   r2Vars, sbVars>>

\* lines 397-398
ReadKeys ==
    /\ pc = "read_keys"
    /\ \E a \in AesKeys, t \in HmacKeys :
        IF a = NoKey
            THEN Fail("Missing required env var: GS_AES_KEY_B64")
                 /\ UNCHANGED keys
        ELSE IF t = NoKey
            THEN Fail("Missing required env var: GS_TAG_HMAC_KEY_B64")
                 /\ UNCHANGED keys
        ELSE keys' = [aes |-> a, tag |-> t] /\ Step
    /\ UNCHANGED <<args, probeVars, encodeVars, title_enc, tag_tokens,
                   tag_hmacs, obj, r2Vars, sbVars>>

Nonces == {"iv1"}

\* line 400
\* line 400, reading the options from a
EncryptTitleWith(a) ==
    /\ pc = "encrypt"
    /\ \E iv \in Nonces :
        LET r == encrypt_title_envelope_b64(a.title, keys.aes, iv)
        IN IF r.ok
           THEN title_enc' = r.env /\ Step
           ELSE Fail(r.err) /\ UNCHANGED title_enc
    /\ UNCHANGED <<args, probeVars, encodeVars, keys, tag_tokens, tag_hmacs,
                   obj, r2Vars, sbVars>>

EncryptTitle == EncryptTitleWith(args)

\* lines 401-406, reading the options from a
IndexTagsWith(a) ==
    /\ pc = "index_tags"
    /\ \E tokens \in {TagTokens(a.tags)} :
          IF tokens = <<>>
          THEN /\ Fail("No valid tags provided after normalization")
               /\ UNCHANGED <<tag_tokens, tag_hmacs>>
          ELSE IF \E i \in 1..Len(tokens) :
                    ~compute_tag_hmac_hex(tokens[i], keys.tag).ok
          THEN /\ \E i \in 1..Len(tokens) :
                    /\ ~compute_tag_hmac_hex(tokens[i], keys.tag).ok
                    /\ \A j \in 1..(i - 1) :
                            compute_tag_hmac_hex(tokens[j], keys.tag).ok
                    /\ Fail(compute_tag_hmac_hex(tokens[i], keys.tag).err)
               /\ UNCHANGED <<tag_tokens, tag_hmacs>>
          ELSE /\ tag_tokens' = tokens
               /\ tag_hmacs' = TagHmacs(tokens, keys.tag)
               /\ Step
    /\ UNCHANGED <<args, probeVars, encodeVars, keys, title_enc, obj, r2Vars,
                   sbVars>>

IndexTags == IndexTagsWith(args)

\* fault variant of ObjectKeys: the thumbnail gets the video's key
ObjectKeysSame(id) ==
    [obj_id |-> id,
     video_key |-> <<"videos", id, ".mp4">>,
     thumb_key |-> <<"videos", id, ".mp4">>]

\* lines 409-411: prefix/obj_id.mp4 and prefix/obj_id.jpg
ObjectKeys(id) ==
    [obj_id |-> id,
     video_key |-> <<"videos", id, ".mp4">>,
     thumb_key |-> <<"thumbs", id, ".jpg">>]

\* lines 408-411
PrepareKeys ==
    /\ pc = "prepare_keys"
    /\ \E id \in 1..MaxObjIds : obj' = ObjectKeys(id)
    /\ Step
    /\ UNCHANGED <<args, probeVars, encodeVars, keys, title_enc, tag_tokens,
                   tag_hmacs, r2Vars, sbVars>>

\* lines 413-415
R2Config ==
    /\ pc = "r2_config"
    /\ \E missing \in {"", "R2_BUCKET", "R2_ENDPOINT", "R2_ACCESS_KEY_ID",
                        "R2_SECRET_ACCESS_KEY"} :
        IF missing = ""
        THEN r2' = [bucket |-> "bucket", client |-> TRUE] /\ Step
        ELSE Fail("Missing required env var: R2") /\ UNCHANGED r2
    /\ UNCHANGED <<args, probeVars, encodeVars, protectVars, r2_store,
                   r2_calls, sbVars>>

\* line 416
UploadVideo ==
    /\ pc = "upload_video"
    /\ \E put_ok \in BOOLEAN :
        LET u == upload_file_r2(r2_store, r2_calls, obj.video_key,
                                work.out_mp4, "video/mp4", args.dry_run, put_ok)
        IN /\ r2_store' = u.store
           /\ r2_calls' = u.calls
           /\ IF u.raised THEN Fail("StorageError: video") ELSE Step
    /\ UNCHANGED <<args, probeVars, encodeVars, protectVars, r2, sbVars>>

\* line 417
UploadThumb ==
    /\ pc = "upload_thumb"
    /\ \E put_ok \in BOOLEAN :
        LET u == upload_file_r2(r2_store, r2_calls, obj.thumb_key,
                                work.out_jpg, "image/jpeg", args.dry_run, put_ok)
        IN /\ r2_store' = u.store
           /\ r2_calls' = u.calls
           /\ IF u.raised THEN Fail("StorageError: thumbnail") ELSE Step
    /\ UNCHANGED <<args, probeVars, encodeVars, protectVars, r2, sbVars>>

\* lines 419-423
SbClient ==
    /\ pc = "sb_client"
    /\ \E missing \in {"", "URL", "SERVICE_ROLE_KEY"} :
        IF missing = ""
        THEN sb' = TRUE /\ Step
        ELSE Fail("Missing required env var: SUPABASE") /\ UNCHANGED sb
    /\ UNCHANGED <<args, probeVars, encodeVars, protectVars, r2Vars, video_row,
                   videos, video_tag_tokens, sb_calls, inserted, video_id>>

\* lines 425-434
BuildRow ==
    /\ pc = "build_row"
    /\ video_row' =
            [title_enc |-> title_enc,
             duration_seconds |-> RoundSeconds(out_info.duration_seconds),
             width |-> out_info.width,
             height |-> out_info.height,
             r2_bucket |-> r2.bucket,
             r2_video_key |-> obj.video_key,
             r2_thumb_key |-> obj.thumb_key,
             published |-> TRUE]
    /\ Step
    /\ UNCHANGED <<args, probeVars, encodeVars, protectVars, r2Vars, sb, videos,
                   video_tag_tokens, sb_calls, inserted, video_id>>

\* lines 436-439
DryCheck ==
    /\ pc = "dry_check"
    /\ IF args.dry_run THEN Return ELSE Step
    /\ UNCHANGED <<args, probeVars, encodeVars, protectVars, r2Vars, sbVars>>

\* lines 441-444: the insert raises, or the store answers with data of n rows
\* (or with no data).  The store is taken to have stored the row exactly when
\* it answers with that one row.
InsertVideo ==
    /\ pc = "insert_video"
    /\ sb_calls' = Append(sb_calls, "videos.insert")
    /\ \/ /\ Fail("CatalogError: videos insert raised")
          /\ UNCHANGED <<videos, inserted, video_id>>
       \/ \E has_data \in BOOLEAN, n \in 0..MaxReported :
            /\ has_data \/ n = 0
            /\ inserted' = [answered |-> TRUE, has_data |-> has_data, n |-> n]
            /\ videos' = IF has_data /\ n = 1
                            THEN videos \cup {[id |-> ServerId, row |-> video_row]}
                            ELSE videos
            /\ IF InsertAccepted(has_data, n)
               THEN video_id' = ServerId /\ Step
               ELSE Fail("Unexpected insert response") /\ UNCHANGED video_id
    /\ UNCHANGED <<args, probeVars, encodeVars, protectVars, r2Vars, sb,
                   video_row, video_tag_tokens>>

\* lines 446-447
InsertTags ==
    /\ pc = "insert_tags"
    /\ sb_calls' = Append(sb_calls, "video_tag_tokens.insert")
    /\ \E ok \in BOOLEAN :
        IF ok
        THEN /\ video_tag_tokens' =
                    video_tag_tokens \o TagRows(video_id, tag_hmacs)
             /\ Step
        ELSE /\ Fail("CatalogError: video_tag_tokens insert raised")
             /\ UNCHANGED video_tag_tokens
    /\ UNCHANGED <<args, probeVars, encodeVars, protectVars, r2Vars, sb,
                   video_row, videos, inserted, video_id>>

\* lines 449-462
Finish ==
    /\ pc = "finish"
    /\ Return
    /\ UNCHANGED <<args, probeVars, encodeVars, protectVars, r2Vars, sbVars>>

Next ==
    \/ CheckSource
    \/ EnsureFfmpeg
    \/ ProbeInput
    \/ Plan
    \/ CreateWorkspace
    \/ Transcode
    \/ ProbeOutput
    \/ Validate
    \/ Thumbnail
    \/ ReadKeys
    \/ EncryptTitle
    \/ IndexTags
    \/ PrepareKeys
    \/ R2Config
    \/ UploadVideo
    \/ UploadThumb
    \/ SbClient
    \/ BuildRow
    \/ DryCheck
    \/ InsertVideo
    \/ InsertTags
    \/ Finish

Spec == Init /\ [][Next]_vars

----------------------------------------------------------------------------
(* Two ingestions side by side: the statements of main() that touch the    *)
(* disk and the bucket, one copy per run, interleaved freely               *)

\* fault variant of mkdtemp: one fixed directory, reused when it exists
mkdtemp_fixed(t) == {1}

\* tempfile.TemporaryDirectory: a directory is created under a name that
\* does not exist
mkdtemp(t) == {d \in DirNames : ~t[d].exists}

\* uuid.uuid4(): a value no run has drawn
uuid4(rs) == {id \in 1..MaxObjIds : \A r \in Runs : rs[r].obj.obj_id # id}

\* the statements a run is inside the with block at
InBlock == {"transcode", "probe_out", "thumbnail", "prepare_keys",
            "upload_video", "upload_thumb"}

\* the run has read content rd and goes on to statement p
PairGoto(r, p, rd) ==
    runs' = [runs EXCEPT ![r].pc = p, ![r].read = @ \cup rd]

\* the with block is left, by return or by exception: shutil.rmtree(td)
PairLeave(r, p, rd) ==
    /\ PairGoto(r, p, rd)
    /\ tmp' = [tmp EXCEPT ![runs[r].td] = NoDir]

\* SingleTab._run_ingest / BulkTab._process_queue hand an item to the pipeline
PairStart(r) ==
    /\ runs[r].pc = "idle"
    /\ PairGoto(r, "mktemp", {})
    /\ UNCHANGED <<mainVars, bulkVars, tmp, bucket>>

\* line 303
PairWorkspace(r) ==
    /\ runs[r].pc = "mktemp"
    /\ \E d \in mkdtemp(tmp) :
          /\ tmp' = [tmp EXCEPT ![d].exists = TRUE]
          /\ runs' = [runs EXCEPT ![r].pc = "transcode", ![r].td = d]
    /\ UNCHANGED <<mainVars, bulkVars, bucket>>

\* lines 308-352: ffmpeg -y writes td/out.mp4
PairTranscode(r) ==
    /\ runs[r].pc = "transcode"
    /\ \E rc \in {0, 1} :
          IF rc = 0
          THEN /\ tmp' = [tmp EXCEPT ![runs[r].td].out_mp4 = r]
               /\ PairGoto(r, "probe_out", {})
          ELSE PairLeave(r, "Failed", {})
    /\ UNCHANGED <<mainVars, bulkVars, bucket>>

\* lines 354-372: td/out.mp4 is probed and validated
PairValidate(r) ==
    /\ runs[r].pc = "probe_out"
    /\ \E ok \in BOOLEAN :
          IF ok
          THEN PairGoto(r, "thumbnail", {tmp[runs[r].td].out_mp4})
               /\ UNCHANGED tmp
          ELSE PairLeave(r, "Failed", {tmp[runs[r].td].out_mp4})
    /\ UNCHANGED <<mainVars, bulkVars, bucket>>

\* lines 374-393: ffmpeg reads td/out.mp4 and writes td/thumb.jpg
PairThumbnail(r) ==
    /\ runs[r].pc = "thumbnail"
    /\ \E rc \in {0, 1} :
          IF rc = 0
          THEN /\ tmp' = [tmp EXCEPT ![runs[r].td].thumb_jpg = r]
               /\ PairGoto(r, "prepare_keys", {tmp[runs[r].td].out_mp4})
          ELSE PairLeave(r, "Failed", {tmp[runs[r].td].out_mp4})
    /\ UNCHANGED <<mainVars, bulkVars, bucket>>

\* lines 408-411
PairObjectKeys(r) ==
    /\ runs[r].pc = "prepare_keys"
    /\ \E id \in uuid4(runs) :
          runs' = [runs EXCEPT ![r].pc = "upload_video",
                               ![r].obj = ObjectKeys(id)]
    /\ UNCHANGED <<mainVars, bulkVars, tmp, bucket>>

\* line 416
PairUploadVideo(r) ==
    /\ runs[r].pc = "upload_video"
    /\ \E put_ok \in BOOLEAN :
        LET body == tmp[runs[r].td].out_mp4
            u == upload_file_r2(bucket, <<>>, runs[r].obj.video_key, body,
                                "video/mp4", FALSE, put_ok)
        IN /\ bucket' = u.store
           /\ IF u.raised THEN PairLeave(r, "Failed", {body})
              ELSE PairGoto(r, "upload_thumb", {body}) /\ UNCHANGED tmp
    /\ UNCHANGED <<mainVars, bulkVars>>

\* line 417, and the return out of the with block
PairUploadThumb(r) ==
    /\ runs[r].pc = "upload_thumb"
    /\ \E put_ok \in BOOLEAN :
        LET body == tmp[runs[r].td].thumb_jpg
            u == upload_file_r2(bucket, <<>>, runs[r].obj.thumb_key, body,
                                "image/jpeg", FALSE, put_ok)
        IN /\ bucket' = u.store
           /\ PairLeave(r, IF u.raised THEN "Failed" ELSE "Done", {body})
    /\ UNCHANGED <<mainVars, bulkVars>>

PairNext ==
    \E r \in Runs :
        \/ PairStart(r)
        \/ PairWorkspace(r)
        \/ PairTranscode(r)
        \/ PairValidate(r)
        \/ PairThumbnail(r)
        \/ PairObjectKeys(r)
        \/ PairUploadVideo(r)
        \/ PairUploadThumb(r)

\* the pipeline variables rest at the start of a live run
PairInit ==
    /\ MainInit
    /\ args = [skip_compress |-> FALSE, dry_run |-> FALSE, tags |-> <<"b">>,
               title |-> Title]
    /\ PairIdle
    /\ BulkIdle

SpecPair == PairInit /\ [][PairNext]_vars

----------------------------------------------------------------------------
(* The bulk tab: the handlers the Tk main loop runs, each in one piece, and *)
(* the worker thread running _process_queue beside them                    *)

Event(ev, item, ok) == [ev |-> ev, item |-> item, ok |-> ok]

\* IngestResult as the worker reads it: success or not
ingest_video == {[success |-> TRUE], [success |-> FALSE]}

\* _add_video: a path already in the list is not added again
AddVideo ==
    /\ \E f \in Paths :
          /\ ~InSeq(f, tree)
          /\ tree' = Append(tree, f)
    /\ UNCHANGED <<mainVars, pairVars, is_processing, should_stop, start_btn,
                   test_btn, stop_btn, worker, after_q, trace>>

\* _clear_list
ClearList ==
    /\ ~is_processing
    /\ tree # <<>>
    /\ tree' = <<>>
    /\ UNCHANGED <<mainVars, pairVars, is_processing, should_stop, start_btn,
                   test_btn, stop_btn, worker, after_q, trace>>

\* _remove_selected, with one row selected
RemoveSelected ==
    /\ ~is_processing
    /\ \E f \in Paths :
          /\ InSeq(f, tree)
          /\ tree' = SelectSeq(tree, LAMBDA x : x # f)
    /\ UNCHANGED <<mainVars, pairVars, is_processing, should_stop, start_btn,
                   test_btn, stop_btn, worker, after_q, trace>>

\* _run_upload, reached from the start or the test button: the list is
\* snapshotted, every row has tags and a title, the thread is started
RunUpload ==
    /\ \E dry_run \in BOOLEAN :
          /\ IF dry_run THEN test_btn = "normal" ELSE start_btn = "normal"
          /\ tree # <<>>
          /\ worker.run < MaxBulkRuns
          /\ worker' = [pc |-> "loop", items |-> tree, idx |-> 0,
                        completed |-> 0, failed |-> 0, skipped |-> 0,
                        dry_run |-> dry_run, run |-> worker.run + 1]
    /\ is_processing' = TRUE
    /\ should_stop' = FALSE
    /\ start_btn' = "disabled"
    /\ test_btn' = "disabled"
    /\ stop_btn' = "normal"
    /\ trace' = <<>>
    /\ UNCHANGED <<mainVars, pairVars, tree, after_q>>

\* _stop_upload
StopUpload ==
    /\ stop_btn = "normal"
    /\ ~should_stop
    /\ should_stop' = TRUE
    /\ trace' = Append(trace, Event("stop", 0, FALSE))
    /\ UNCHANGED <<mainVars, pairVars, tree, is_processing, start_btn,
                   test_btn, stop_btn, worker, after_q>>

\* fault variant of QueueHead: the stop is logged and the loop goes on
QueueHeadNoBreak ==
    /\ worker.pc = "loop"
    /\ IF worker.idx = Len(worker.items)
       THEN worker' = [worker EXCEPT !.pc = "summary"] /\ UNCHANGED trace
       ELSE /\ worker' = [worker EXCEPT !.pc = "call"]
            /\ trace' = IF should_stop
                         THEN Append(trace, Event("observed", 0, FALSE))
                         ELSE trace
    /\ UNCHANGED <<mainVars, pairVars, tree, is_processing, should_stop,
                   start_btn, test_btn, stop_btn, after_q>>

\* lines 461-464: the next item of the snapshot, or the end of the loop;
\* should_stop is read here and nowhere else
QueueHead ==
    /\ worker.pc = "loop"
    /\ IF worker.idx = Len(worker.items)
       THEN worker' = [worker EXCEPT !.pc = "summary"] /\ UNCHANGED trace
       ELSE IF should_stop
       THEN /\ worker' = [worker EXCEPT !.pc = "summary"]
            /\ trace' = Append(trace, Event("observed", 0, FALSE))
       ELSE worker' = [worker EXCEPT !.pc = "call"] /\ UNCHANGED trace
    /\ UNCHANGED <<mainVars, pairVars, tree, is_processing, should_stop,
                   start_btn, test_btn, stop_btn, after_q>>

\* lines 466-491: ingest_video is called for the item
IngestCall ==
    /\ worker.pc = "call"
    /\ worker' = [worker EXCEPT !.pc = "ingest"]
    /\ trace' = Append(trace,
                       Event("start", worker.items[worker.idx + 1], FALSE))
    /\ UNCHANGED <<mainVars, pairVars, tree, is_processing, should_stop,
                   start_btn, test_btn, stop_btn, after_q>>

\* fault variant of IngestReturn: a failed item ends the loop
IngestReturnStopOnFailure ==
    /\ worker.pc = "ingest"
    /\ \E result \in ingest_video :
          /\ worker' =
                [worker EXCEPT
                    !.pc = IF result.success THEN "loop" ELSE "summary",
                    !.idx = @ + 1,
                    !.completed = IF result.success THEN @ + 1 ELSE @,
                    !.failed = IF result.success THEN @ ELSE @ + 1]
          /\ trace' = Append(trace,
                             Event("end", worker.items[worker.idx + 1],
                                   result.success))
    /\ UNCHANGED <<mainVars, pairVars, tree, is_processing, should_stop,
                   start_btn, test_btn, stop_btn, after_q>>

\* lines 493-503: ingest_video has returned; the item is counted
IngestReturn ==
    /\ worker.pc = "ingest"
    /\ \E result \in ingest_video :
          /\ worker' =
                [worker EXCEPT
                    !.pc = "loop",
                    !.idx = @ + 1,
                    !.completed = IF result.success THEN @ + 1 ELSE @,
                    !.failed = IF result.success THEN @ ELSE @ + 1]
          /\ trace' = Append(trace,
                             Event("end", worker.items[worker.idx + 1],
                                   result.success))
    /\ UNCHANGED <<mainVars, pairVars, tree, is_processing, should_stop,
                   start_btn, test_btn, stop_btn, after_q>>

\* fault variant of Summary: the thread ends without handing
\* _upload_finished to the main loop
SummaryNoCallback ==
    /\ worker.pc = "summary"
    /\ worker' =
          [worker EXCEPT
              !.pc = "exited",
              !.skipped = Len(worker.items) - worker.completed - worker.failed]
    /\ after_q' = after_q
    /\ UNCHANGED <<mainVars, pairVars, tree, is_processing, should_stop,
                   start_btn, test_btn, stop_btn, trace>>

\* lines 505-523: the summary, and _upload_finished handed to the main loop
Summary ==
    /\ worker.pc = "summary"
    /\ worker' =
          [worker EXCEPT
              !.pc = "exited",
              !.skipped = Len(worker.items) - worker.completed - worker.failed]
    /\ after_q' = Append(after_q, "_upload_finished")
    /\ UNCHANGED <<mainVars, pairVars, tree, is_processing, should_stop,
                   start_btn, test_btn, stop_btn, trace>>

\* the main loop runs the oldest pending callback: _upload_finished
UploadFinished ==
    /\ after_q # <<>>
    /\ Head(after_q) = "_upload_finished"
    /\ after_q' = Tail(after_q)
    /\ is_processing' = FALSE
    /\ start_btn' = "normal"
    /\ test_btn' = "normal"
    /\ stop_btn' = "disabled"
    /\ UNCHANGED <<mainVars, pairVars, tree, should_stop, worker, trace>>

BulkNext ==
    \/ AddVideo
    \/ ClearList
    \/ RemoveSelected
    \/ RunUpload
    \/ StopUpload
    \/ QueueHead
    \/ IngestCall
    \/ IngestReturn
    \/ Summary
    \/ UploadFinished

\* the pipeline variables rest; the bulk tab starts as constructed
BulkInit == PairInit

SpecBulk == BulkInit /\ [][BulkNext]_vars

\* the worker thread keeps running, every ingest_video call returns, and the
\* Tk main loop runs the callbacks handed to it; the user is free to do
\* nothing
FairBulk ==
    /\ SpecBulk
    /\ WF_vars(QueueHead)
    /\ WF_vars(IngestCall)
    /\ WF_vars(IngestReturn)
    /\ WF_vars(Summary)
    /\ WF_vars(UploadFinished)

\* a sequential program: the statement control has reached is executed, and
\* every external call returns or fails
FairSpec == Spec /\ WF_vars(Next)

----------------------------------------------------------------------------
(* Properties of one run *)

InFamily(container) ==
    \E i \in 1..Len(container) : container[i] \in {"mp4", "mov"}

\* what the validator is to guarantee of a file, against the probed input
Compliant(f, in) ==
    /\ f.height <= in.height
    /\ f.width <= in.width
    /\ f.codec_name = "h264"
    /\ f.audio \in {"aac", None}
    /\ InFamily(f.format_name)

ValidationErrors ==
    {"NO-UPSCALE violated: height", "NO-UPSCALE violated: width",
     "Output video codec not H.264", "Output audio codec not AAC",
     "Output container not MP4/MOV"}

\* C1: every video object in the object store and every video row in the
\* catalog belongs to an output with height <= input height, width <= input
\* width, video codec h264, audio codec aac or absent, container in the
\* mp4/mov family, whatever the encoder produced and on either path.
C1_StoredOutputCompliant ==
    /\ \A o \in r2_store :
            o.content_type = "video/mp4" => Compliant(o.body, inp)
    /\ \A v \in videos :
            /\ v.row.height <= inp.height
            /\ v.row.width <= inp.width
            /\ v.row.height = out_info.height
            /\ v.row.width = out_info.width
            /\ out_info.video_codec = "h264"
            /\ out_info.audio_codec \in {"aac", None}
            /\ InFamily(out_info.container)

\* a downscaled output was uploaded and its row inserted
C1_Witness ==
    /\ videos # {}
    /\ \E o \in r2_store :
            o.content_type = "video/mp4" /\ o.body.height < inp.height

\* C2: no put to the object store and no catalog insert is issued before all
\* five validator checks have passed on the re-probed output; a run that a
\* validator check fails ends Failed with no put and no insert.
C2_ValidateBeforeSideEffects ==
    /\ (r2_calls # <<>> \/ sb_calls # <<>> \/ r2_store # {} \/ videos # {})
            => /\ checks_passed = 5
               /\ out_info # NoProbe
               /\ out_info.height <= inp.height
               /\ out_info.width <= inp.width
               /\ out_info.video_codec = "h264"
               /\ out_info.audio_codec \in {"aac", None}
               /\ InFamily(out_info.container)
    /\ error \in ValidationErrors
            => /\ pc = "Failed"
               /\ checks_passed < 5
               /\ r2_calls = <<>> /\ sb_calls = <<>>
               /\ r2_store = {} /\ videos = {} /\ video_tag_tokens = <<>>
    /\ (\E i \in 1..Len(stages) : stages[i] = "Thumbnailing")
            => checks_passed = 5

\* the first put has been issued, after the five checks passed
C2_Witness == Len(r2_calls) = 1 /\ checks_passed = 5

\* C3: the video row is inserted only after both the video object and the
\* thumbnail object were stored: whenever the catalog insert has been issued
\* or a row exists, both objects are in the store under the row's keys.
C3_RowAfterArtifacts ==
    /\ sb_calls # <<>> =>
            /\ Len(r2_calls) = 2
            /\ \E o \in r2_store :
                    o.key = obj.video_key /\ o.content_type = "video/mp4"
            /\ \E o \in r2_store :
                    o.key = obj.thumb_key /\ o.content_type = "image/jpeg"
    /\ \A v \in videos :
            /\ \E o \in r2_store : o.key = v.row.r2_video_key
            /\ \E o \in r2_store : o.key = v.row.r2_thumb_key

C3_Witness == videos # {} /\ Cardinality(r2_store) = 2

StageOrder ==
    <<"Probing", "Planning", "Transcoding", "Validating", "Thumbnailing",
      "Protecting", "Uploading", "Committing", "Done">>

\* C4: on a dry run no put and no insert is ever issued and nothing is
\* stored; a dry run that returns has gone through every stage, probing to
\* tag indexing included, and returns 0; and once tag indexing has succeeded
\* a dry run cannot fail on a store call (only a missing store setting can
\* still stop it).
C4_DryRun ==
    args.dry_run =>
        /\ r2_calls = <<>> /\ sb_calls = <<>>
        /\ r2_store = {} /\ videos = {} /\ video_tag_tokens = <<>>
        /\ pc = "Done" =>
                /\ exit_code = 0 /\ error = ""
                /\ stages = StageOrder
                /\ inp # NoProbe /\ out_info # NoProbe
                /\ checks_passed = 5
                /\ Len(ffmpeg_log) = 2
                /\ title_enc # NoEnvelope
                /\ tag_tokens # <<>> /\ Len(tag_hmacs) = Len(tag_tokens)
        /\ (pc = "Failed" /\ tag_hmacs # <<>>) =>
                error \in {"Missing required env var: R2",
                           "Missing required env var: SUPABASE"}

C4_Witness == args.dry_run /\ pc = "Done" /\ exit_code = 0

\* C5: in every terminal state the catalog holds either no row of this
\* ingestion, or the video row together with all of its N tag-index rows.
C5_NoPartialCatalog ==
    pc \in Terminal =>
        \/ videos = {} /\ video_tag_tokens = <<>>
        \/ /\ Cardinality(videos) = 1
           /\ tag_hmacs # <<>>
           /\ Len(video_tag_tokens) = Len(tag_hmacs)

\* C6: tag-index rows are inserted only after the video insert succeeded and
\* returned its identifier; every tag-index row references a video row that
\* is in the catalog.
C6_TagRowsAfterVideoRow ==
    /\ \A i \in 1..Len(video_tag_tokens) :
            \E v \in videos : v.id = video_tag_tokens[i].video_id
    /\ (\E i \in 1..Len(sb_calls) : sb_calls[i] = "video_tag_tokens.insert")
            => /\ sb_calls[1] = "videos.insert"
               /\ inserted.answered /\ inserted.has_data /\ inserted.n = 1
               /\ video_id # ""
               /\ \E v \in videos : v.id = video_id

C6_Witness == video_tag_tokens # <<>> /\ videos # {}

\* C7: when the catalog store answers the video insert with anything but
\* exactly one row (no data, zero rows, more than one row), the run fails
\* with a catalog error and no tag-index row is inserted.
C7_UnexpectedInsertResponse ==
    (inserted.answered /\ ~(inserted.has_data /\ inserted.n = 1)) =>
        /\ pc = "Failed"
        /\ error = "Unexpected insert response"
        /\ exit_code = 1
        /\ video_tag_tokens = <<>>
        /\ sb_calls = <<"videos.insert">>

C7_Witness == inserted.answered /\ inserted.has_data /\ inserted.n > 1

InsideWith ==
    {"transcode", "probe_out", "validate", "thumbnail", "read_keys", "encrypt",
     "index_tags", "prepare_keys", "r2_config", "upload_video", "upload_thumb",
     "sb_client", "build_row", "dry_check", "insert_video", "insert_tags",
     "finish"}

\* C8: the temporary workspace exists from its creation, before the first
\* encoder command, through every later statement, and in no terminal state:
\* it is removed whether the run ended by success, dry-run return, validation
\* failure, external-process failure, tag/key error, upload failure or
\* catalog failure.
C8_WorkspaceScoped ==
    /\ pc \in InsideWith <=> work.state = "exists"
    /\ pc \in Terminal =>
            /\ work.state # "exists"
            /\ ~work.has_mp4 /\ ~work.has_jpg
            /\ ffmpeg_log # <<>> => work.state = "removed"
    /\ (work.has_mp4 \/ work.has_jpg) => work.state = "exists"

C8_Witness ==
    /\ pc = "Failed"
    /\ error = "CatalogError: videos insert raised"
    /\ work.state = "removed"

Front(s) == SubSeq(s, 1, Len(s) - 1)

\* C9: the stages are entered in the order Probing, Planning, Transcoding,
\* Validating, Thumbnailing, Protecting, Uploading, Committing, Done: none
\* twice, none skipped, a failure goes directly to Failed, and Done and
\* Failed are the only states without a successor.
C9_StageOrder ==
    LET entered == IF stages[Len(stages)] = "Failed" THEN Front(stages)
                   ELSE stages
    IN /\ entered # <<>>
       /\ entered = SubSeq(StageOrder, 1, Len(entered))
       /\ stages[Len(stages)] = Stage(pc)
       /\ (pc = "Failed") <=> (error # "")
       /\ (pc \in Terminal) <=> ~ENABLED Next

C9_Witness == pc = "Done" /\ stages = StageOrder /\ ~args.dry_run

\* C10: exactly one transcode command is issued per run; it is the remux
\* (stream copy) command if and only if skip-compress is requested and the
\* input container is in the mp4/mov family, the input video codec is h264
\* and the input audio codec is aac or absent; otherwise it is the re-encode
\* command; and will_reencode agrees with the command issued.
C10_OnePath ==
    LET transcodes == SelectSeq(ffmpeg_log, LAMBDA c : c.mode # "thumb")
    IN /\ Len(transcodes) <= 1
       /\ (pc \in InsideWith \ {"transcode"}) => Len(transcodes) = 1
       /\ \A i \in 1..Len(transcodes) :
            /\ transcodes[i].mode \in {"copy", "libx264"}
            /\ transcodes[i].mode = "copy" <=>
                    /\ args.skip_compress
                    /\ InFamily(inp.container)
                    /\ inp.video_codec = "h264"
                    /\ inp.audio_codec \in {"aac", None}
            /\ plan.will_reencode <=> transcodes[i].mode = "libx264"

C10_Witness ==
    /\ ffmpeg_log # <<>>
    /\ ffmpeg_log[1].mode = "copy"
    /\ pc = "Done"

\* C11: the cap planned for an input is 720 if and only if its duration is
\* below 600 s and 480 otherwise; a duration of exactly 600 s gives 480.
C11_ChooseCap ==
    (\E i \in 1..Len(stages) : stages[i] = "Transcoding") =>
        /\ plan.cap \in {720, 480}
        /\ plan.cap = 720 <=> inp.duration_seconds < 600000
        /\ inp.duration_seconds = 600000 => plan.cap = 480
        /\ inp.duration_seconds = 599999 => plan.cap = 720

\* an input of exactly 600 s was planned
C11_Witness ==
    /\ pc = "mktemp"
    /\ inp.duration_seconds = 600000
    /\ plan.cap = 480

\* C12: the re-encode command carries no scale filter when the input height
\* is at most the cap; otherwise it carries a scale filter for that cap, and
\* the height that filter gives the input is at most min(cap, input height).
\* The remux command never carries a filter.
C12_ScaleFilter ==
    \A i \in 1..Len(ffmpeg_log) :
        LET vf == ffmpeg_log[i].vf
        IN /\ ffmpeg_log[i].mode = "copy" => vf = NoFilter
           /\ ffmpeg_log[i].mode = "libx264" =>
                /\ inp.height <= plan.cap => vf = NoFilter
                /\ inp.height > plan.cap =>
                        /\ vf # NoFilter
                        /\ vf.cap = plan.cap
                        /\ ScaledHeight(vf, inp.height) <= plan.cap
                        /\ ScaledHeight(vf, inp.height) <= inp.height

\* a 600-line input longer than 600 s was re-encoded with the 480 filter
C12_Witness ==
    /\ ffmpeg_log # <<>>
    /\ ffmpeg_log[1].mode = "libx264"
    /\ inp.height = 600
    /\ ffmpeg_log[1].vf = [kind |-> "scale_min_ih", cap |-> 480]

\* the validator has run on the re-probed output
Validated ==
    \/ error \in ValidationErrors
    \/ \E i \in 1..Len(stages) : stages[i] = "Thumbnailing"

\* C13: the validator checks height, width, video codec, audio codec and
\* container in this order and reports the first check that fails: an upscale
\* error before a codec error before a container error; it fails exactly
\* when one of the five checks fails.
C13_ValidatorOrder ==
    LET hOk == out_info.height <= inp.height
        wOk == out_info.width <= inp.width
        vOk == out_info.video_codec = "h264"
        aOk == out_info.audio_codec \in {"aac", None}
        cOk == InFamily(out_info.container)
        first == IF ~hOk THEN "NO-UPSCALE violated: height"
                 ELSE IF ~wOk THEN "NO-UPSCALE violated: width"
                 ELSE IF ~vOk THEN "Output video codec not H.264"
                 ELSE IF ~aOk THEN "Output audio codec not AAC"
                 ELSE IF ~cOk THEN "Output container not MP4/MOV"
                 ELSE ""
        count == IF ~hOk THEN 0 ELSE IF ~wOk THEN 1 ELSE IF ~vOk THEN 2
                 ELSE IF ~aOk THEN 3 ELSE IF ~cOk THEN 4 ELSE 5
    IN /\ Validated =>
            /\ out_info # NoProbe
            /\ checks_passed = count
            /\ error \in ValidationErrors <=> first # ""
            /\ error \in ValidationErrors => error = first
       /\ (/\ pc = "Failed" /\ out_info # NoProbe
           /\ stages[Len(stages) - 1] = "Validating") => Validated

\* an output that is too high, in the wrong codec and the wrong container is
\* reported as too high
C13_Witness ==
    /\ error = "NO-UPSCALE violated: height"
    /\ out_info.video_codec = "hevc"
    /\ out_info.audio_codec = "mp3"
    /\ ~InFamily(out_info.container)

\* the tokens each raw tag list is to give
ExpectedTokens(tags) ==
    CASE tags = <<" ", ",", " ", ",">> -> <<>>
      [] tags = <<"B", ",", " ", "b", " ", ",", ",", "s">>
            -> << <<"b">>, <<"b">>, <<"s">> >>
      [] tags = <<"b">> -> << <<"b">> >>
      [] tags = <<",", " ", "S", " ">> -> << <<"s">> >>

\* the positions where a comma-separated piece has its first character that
\* is not a space
TokenStarts(s) ==
    {i \in 1..Len(s) :
        /\ s[i] \notin {" ", ","}
        /\ \A j \in 1..(i - 1) :
                s[j] \notin {" ", ","} => \E k \in (j + 1)..(i - 1) : s[k] = ","}

Entered(st) == \E i \in 1..Len(stages) : stages[i] = st

\* C14: tag indexing gives one digest per non-empty normalized token of the
\* comma-split input, in input order, duplicates kept; a successful ingestion
\* inserts exactly that many tag-index rows, one per digest, in order.
C14_TagIndex ==
    /\ Entered("Uploading") => tag_hmacs # <<>>
    /\ tag_hmacs # <<>> =>
            /\ tag_tokens = ExpectedTokens(args.tags)
            /\ Len(tag_tokens) = Cardinality(TokenStarts(args.tags))
            /\ Len(tag_hmacs) = Len(tag_tokens)
            /\ \A i \in 1..Len(tag_hmacs) :
                    tag_hmacs[i] = [alg |-> "hmac-sha256", key |-> keys.tag.id,
                                    msg |-> tag_tokens[i]]
    /\ (video_tag_tokens # <<>> \/ (pc = "Done" /\ ~args.dry_run)) =>
            /\ Len(video_tag_tokens) = Cardinality(TokenStarts(args.tags))
            /\ \A i \in 1..Len(video_tag_tokens) :
                    video_tag_tokens[i] =
                        [video_id |-> video_id, tag_hmac |-> tag_hmacs[i]]

\* "B, b ,,s" was ingested: three rows, the first two with the same digest
C14_Witness ==
    /\ pc = "Done"
    /\ Len(video_tag_tokens) = 3
    /\ video_tag_tokens[1] = video_tag_tokens[2]
    /\ video_tag_tokens[3] # video_tag_tokens[1]

\* every comma-separated piece of s is empty after trimming
AllBlank(s) == \A i \in 1..Len(s) : s[i] \in {" ", ","}

\* C15: tag indexing fails with "No valid tags" exactly when every
\* comma-separated piece of the raw tag list is empty after trimming and
\* lowercasing; with at least one non-empty piece it never fails so (only a
\* tag key that is not base64 stops it) and the empty pieces are dropped;
\* when it fails nothing was uploaded or inserted.
C15_NoValidTags ==
    LET at_index == pc = "Failed" /\ title_enc # NoEnvelope /\ tag_hmacs = <<>>
    IN /\ error = "No valid tags provided after normalization" =>
            /\ AllBlank(args.tags)
            /\ at_index
            /\ r2_calls = <<>> /\ sb_calls = <<>>
            /\ r2_store = {} /\ videos = {} /\ video_tag_tokens = <<>>
       /\ AllBlank(args.tags) =>
            /\ tag_hmacs = <<>> /\ tag_tokens = <<>>
            /\ ~Entered("Uploading")
            /\ at_index =>
                    error = "No valid tags provided after normalization"
       /\ ~AllBlank(args.tags) =>
            /\ at_index => ~keys.tag.b64 /\ error = B64Error
            /\ error \notin {"No valid tags provided after normalization",
                              "Empty tag token after normalization"}
            /\ \A i \in 1..Len(tag_tokens) : tag_tokens[i] # <<>>
            /\ Len(tag_tokens) \in {0, Cardinality(TokenStarts(args.tags))}

\* " , ," was rejected
C15_Witness ==
    /\ error = "No valid tags provided after normalization"
    /\ args.tags = <<" ", ",", " ", ",">>

\* ", S " was accepted: its empty first piece was dropped
C15_WitnessDropped ==
    /\ args.tags = <<",", " ", "S", " ">>
    /\ tag_tokens = << <<"s">> >>

\* the run ended in ffprobe(src), line 290
InputProbeFailed ==
    /\ pc = "Failed"
    /\ stages = <<"Probing", "Failed">>
    /\ error \notin {"File not found", "ffmpeg not found"}

\* C16: when probing the input fails, as it does for a file with no video
\* stream, the run ends Failed with the probe's error, and no temporary
\* workspace, no encoder command, no upload and no catalog row was ever
\* created in that run.
C16_ProbeFailureLeavesNothing ==
    /\ (pc = "Failed" /\ inp = NoProbe) =>
            /\ stages = <<"Probing", "Failed">>
            /\ exit_code = 1
            /\ work = NoWork
            /\ ffmpeg_log = <<>>
            /\ r2_calls = <<>> /\ r2_store = {}
            /\ sb_calls = <<>> /\ videos = {} /\ video_tag_tokens = <<>>
    /\ (~src.has_video /\ pc \notin {"check_src", "ensure_ffmpeg", "probe_in"})
            => /\ pc = "Failed" /\ inp = NoProbe
               /\ error # ""
    /\ Entered("Planning") => inp # NoProbe

\* a file without a video stream was rejected by the probe
C16_Witness ==
    /\ InputProbeFailed
    /\ ~src.has_video
    /\ error = "No video stream found"

\* what a successful probe returned, for the input and for the output
ProbeResultSound ==
    /\ inp # NoProbe =>
            /\ inp.duration_seconds > 0 /\ inp.width > 0 /\ inp.height > 0
            /\ src.has_video
            /\ inp.width = src.width /\ inp.height = src.height
            /\ inp.duration_seconds = src.duration
            /\ inp.audio_codec = None <=> src.audio = None
    /\ out_info # NoProbe =>
            /\ out_info.duration_seconds > 0
            /\ out_info.width > 0 /\ out_info.height > 0
    /\ Entered("Planning") => inp # NoProbe

\* the errors the probe has for what the file itself is
FileRejections(f) ==
    IF ~f.has_video THEN {"No video stream found"}
    ELSE IF f.width <= 0 \/ f.height <= 0 THEN {"Invalid video dimensions"}
    ELSE IF f.duration <= 0 THEN {"Invalid duration"}
    ELSE {}

\* C17 as stated: the probe fails only if the inspector is unavailable, there
\* is no video stream, a dimension is not positive or the duration is not
\* positive; an input without audio probes successfully with no audio codec;
\* every result has positive duration, width and height.
C17_ProbeFailsOnlyListed ==
    /\ ProbeResultSound
    /\ InputProbeFailed =>
            error \in {"ffprobe not found"} \cup FileRejections(src)

\* C17, amended: the probe fails if the inspector is unavailable, if one of
\* its three queries exits non-zero or returns malformed output (not JSON, or
\* a width, height or duration that is not a number), if there is no video
\* stream, if a dimension is not positive or if the duration is not
\* positive, and in no other case; an input without audio probes
\* successfully with no audio codec; every result has positive duration,
\* width and height.
C17_ProbeFailures ==
    /\ ProbeResultSound
    /\ InputProbeFailed =>
            error \in {"ffprobe not found", "Command failed: ffprobe",
                       "Failed to parse JSON output: ffprobe",
                       "ValueError: ffprobe"}
                      \cup FileRejections(src)

\* a sound file was rejected because an inspector query exited non-zero
C17_Witness ==
    /\ InputProbeFailed
    /\ FileRejections(src) = {}
    /\ error = "Command failed: ffprobe"

\* a file without audio was probed
C17_WitnessNoAudio ==
    /\ inp # NoProbe
    /\ src.audio = None
    /\ inp.audio_codec = None

\* the errors encrypt_title_envelope_b64 has for a key
KeyErrors == {"GS_AES_KEY_B64 must decode to 32 bytes", B64Error}

\* C18: whenever the configured AES key does not decode to exactly 32 bytes,
\* title encryption fails with a key error; no envelope is produced, no put
\* is issued and no catalog row is written.  An envelope exists only under a
\* key of exactly 32 bytes.
C18_KeyLength ==
    LET bad == ~keys.aes.b64 \/ keys.aes.len # 32
    IN /\ (keys.aes # NoKey /\ bad /\ pc # "encrypt") =>
            /\ pc = "Failed"
            /\ error \in KeyErrors
            /\ keys.aes.b64 => error = "GS_AES_KEY_B64 must decode to 32 bytes"
            /\ exit_code = 1
            /\ title_enc = NoEnvelope
            /\ r2_calls = <<>> /\ r2_store = {}
            /\ sb_calls = <<>> /\ videos = {} /\ video_tag_tokens = <<>>
       /\ error \in KeyErrors /\ tag_hmacs = <<>> /\ title_enc = NoEnvelope
            => bad
       /\ title_enc # NoEnvelope => keys.aes.b64 /\ keys.aes.len = 32

\* a 16-byte key was rejected
C18_Witness ==
    /\ pc = "Failed"
    /\ keys.aes.len = 16
    /\ error = "GS_AES_KEY_B64 must decode to 32 bytes"

\* the 32-byte keys a reader of the catalog may hold
ReaderKeys ==
    {k \in AesKeys : k.b64 /\ k.len = 32}
    \cup {[id |-> "k32-other", len |-> 32, b64 |-> TRUE]}

\* C19: decrypting an envelope with the key it was made with and the nonce
\* and ciphertext it carries gives back exactly the title; decrypting it with
\* any other key fails authentication and gives no title.
C19_RoundTrip ==
    /\ title_enc # NoEnvelope =>
            /\ decrypt_title_envelope(title_enc, keys.aes)
                    = [ok |-> TRUE, title |-> args.title]
            /\ \A k \in ReaderKeys \ {keys.aes} :
                    ~decrypt_title_envelope(title_enc, k).ok
    /\ \A v \in videos :
            /\ decrypt_title_envelope(v.row.title_enc, keys.aes)
                    = [ok |-> TRUE, title |-> args.title]
            /\ \A k \in ReaderKeys \ {keys.aes} :
                    ~decrypt_title_envelope(v.row.title_enc, k).ok

\* the envelope of a stored row decrypts to the title
C19_Witness ==
    /\ pc = "Done"
    /\ \E v \in videos :
            decrypt_title_envelope(v.row.title_enc, keys.aes).title = Title

\* env is the ciphertext of title under key, and nothing else
Sealed(env, title, key) ==
    /\ env.v = 1 /\ env.alg = "A256GCM"
    /\ b64_decode(env.ct_b64)
            = AESGCM_encrypt(key.id, b64_decode(env.iv_b64), Utf8(title), None)

\* C20: nothing handed to the object store or to the catalog store is the
\* plaintext title or a plaintext tag token: the video row has the encrypted
\* title envelope and otherwise only dimensions, duration, bucket and object
\* keys; a tag row has the video id and the keyed digest of a token; an
\* object is a media file under a key made of a prefix and a random id.
C20_NoPlaintextAtRest ==
    /\ video_row # NoRow =>
            /\ DOMAIN video_row =
                    {"title_enc", "duration_seconds", "width", "height",
                     "r2_bucket", "r2_video_key", "r2_thumb_key", "published"}
            /\ Sealed(video_row.title_enc, args.title, keys.aes)
            /\ video_row.r2_bucket # args.title
            /\ video_row.r2_video_key = <<"videos", obj.obj_id, ".mp4">>
            /\ video_row.r2_thumb_key = <<"thumbs", obj.obj_id, ".jpg">>
    /\ \A v \in videos : v.row = video_row
    /\ \A i \in 1..Len(video_tag_tokens) :
            /\ DOMAIN video_tag_tokens[i] = {"video_id", "tag_hmac"}
            /\ video_tag_tokens[i].video_id = ServerId
            /\ video_tag_tokens[i].tag_hmac
                    = hmac_sha256(keys.tag.id, tag_tokens[i])
    /\ \A o \in r2_store :
            /\ DOMAIN o = {"key", "body", "content_type"}
            /\ o.key \in {<<"videos", obj.obj_id, ".mp4">>,
                           <<"thumbs", obj.obj_id, ".jpg">>}
            /\ o.content_type \in {"video/mp4", "image/jpeg"}
            /\ o.body.has_video

\* a row and its tag rows were stored
C20_Witness ==
    /\ videos # {}
    /\ Len(video_tag_tokens) = 3
    /\ Cardinality(r2_store) = 2

\* the errors of a configuration value that is not set
ConfigErrors ==
    {"Missing required env var: GS_AES_KEY_B64",
     "Missing required env var: GS_TAG_HMAC_KEY_B64",
     "Missing required env var: R2",
     "Missing required env var: SUPABASE"}

\* C21: a required configuration value that is missing (title key, tag key,
\* object-store bucket and credentials, catalog endpoint and credentials) is
\* detected before any pipeline stage has run: when the run fails for it, no
\* probe, no encoder command and no workspace has happened.
C21_ConfigAtStartup ==
    error \in ConfigErrors =>
        /\ inp = NoProbe
        /\ ffmpeg_log = <<>>
        /\ work = NoWork
        /\ stages = <<"Probing", "Failed">>

\* C22: when the thumbnail put fails after the video put of the same run
\* succeeded, the run fails, the video object stays in the store (nothing
\* deletes it: the only calls issued are the two puts) and no catalog insert
\* is issued.
C22_OrphanedVideoObject ==
    error = "StorageError: thumbnail" =>
        /\ pc = "Failed" /\ exit_code = 1
        /\ r2_calls = <<obj.video_key, obj.thumb_key>>
        /\ Cardinality(r2_store) = 1
        /\ \A o \in r2_store :
                /\ o.key = obj.video_key
                /\ o.content_type = "video/mp4"
                /\ o.body.width = out_info.width
                /\ o.body.height = out_info.height
        /\ sb_calls = <<>> /\ videos = {} /\ video_tag_tokens = <<>>

\* the thumbnail put failed and the video object is in the store
C22_Witness ==
    /\ error = "StorageError: thumbnail"
    /\ \E o \in r2_store : o.key = obj.video_key

ThumbCmds == SelectSeq(ffmpeg_log, LAMBDA c : c.mode = "thumb")

\* C26: the thumbnail timestamp is 10% of the validated output's duration
\* clamped to [0.5 s, 5.0 s]: 0.5 s for durations below 5 s, 5.0 s above
\* 50 s, a tenth of the duration in between; one capture command is issued
\* per ingestion, after validation.  The command line carries the timestamp
\* rounded to hundredths of a second.  (Durations in milliseconds, the
\* timestamp in tenths of a millisecond.)
C26_ThumbTimestamp ==
    LET d == out_info.duration_seconds
    IN /\ Len(ThumbCmds) <= 1
       /\ Entered("Protecting") => Len(ThumbCmds) = 1
       /\ \A i \in 1..Len(ThumbCmds) :
            /\ checks_passed = 5
            /\ d < 5000 => ThumbCmds[i].ss = 5000
            /\ d > 50000 => ThumbCmds[i].ss = 50000
            /\ (d >= 5000 /\ d <= 50000) => ThumbCmds[i].ss = d
            /\ 100 * ThumbCmds[i].ss_arg - ThumbCmds[i].ss \in -50..50

\* a 3 s output was captured at 0.5 s
C26_Witness ==
    /\ Len(ThumbCmds) = 1
    /\ out_info.duration_seconds = 3000
    /\ ThumbCmds[1].ss = 5000

\* a 12.345 s output was captured at 1.2345 s, passed as 1.23
C26_WitnessTenth ==
    /\ Len(ThumbCmds) = 1
    /\ out_info.duration_seconds = 12345
    /\ ThumbCmds[1].ss = 12345
    /\ ThumbCmds[1].ss_arg = 123

TranscodeCmds == SelectSeq(ffmpeg_log, LAMBDA c : c.mode # "thumb")

\* C28: the encoder gets a scale filter if and only if the run re-encodes
\* and the input height exceeds the cap; the remux command carries no filter
\* and copies the streams even when the input is higher than the cap; the
\* re-encode command drops audio if and only if the input has no audio, and
\* otherwise encodes it to aac.
C28_FilterAndAudio ==
    \A i \in 1..Len(TranscodeCmds) :
        LET c == TranscodeCmds[i]
        IN /\ c.vf # NoFilter <=>
                    (plan.will_reencode /\ inp.height > plan.cap)
           /\ c.vf # NoFilter => c.vf = [kind |-> "scale_min_ih", cap |-> plan.cap]
           /\ ~plan.will_reencode =>
                    c.mode = "copy" /\ c.audio = "copy" /\ c.vf = NoFilter
           /\ plan.will_reencode =>
                    /\ c.mode = "libx264"
                    /\ c.audio = "an" <=> inp.audio_codec = None
                    /\ c.audio = "aac" <=> inp.audio_codec # None

\* a 1080-line input was remuxed under a lower cap, unscaled
C28_Witness ==
    /\ Len(TranscodeCmds) = 1
    /\ TranscodeCmds[1].mode = "copy"
    /\ inp.height > plan.cap
    /\ pc = "Done"

\* an input without audio was re-encoded without audio
C28_WitnessNoAudio ==
    /\ Len(TranscodeCmds) = 1
    /\ TranscodeCmds[1].mode = "libx264"
    /\ TranscodeCmds[1].audio = "an"

\* C30: when a live run reaches Done the catalog holds exactly one video
\* row; its two storage keys are the keys the video and the thumbnail were
\* put under in this run (the same fresh id, .mp4 and .jpg), both objects are
\* in the store, and its width and height are those of the validated output.
\* No run issues more than one video insert.
C30_RowMatchesUploads ==
    /\ Cardinality(videos) <= 1
    /\ Len(SelectSeq(sb_calls, LAMBDA c : c = "videos.insert")) <= 1
    /\ (pc = "Done" /\ ~args.dry_run) =>
            /\ Cardinality(videos) = 1
            /\ checks_passed = 5
            /\ r2_calls = <<obj.video_key, obj.thumb_key>>
            /\ \A v \in videos :
                    /\ v.row.r2_video_key = <<"videos", obj.obj_id, ".mp4">>
                    /\ v.row.r2_thumb_key = <<"thumbs", obj.obj_id, ".jpg">>
                    /\ v.row.r2_video_key = r2_calls[1]
                    /\ v.row.r2_thumb_key = r2_calls[2]
                    /\ \E o \in r2_store :
                            /\ o.key = v.row.r2_video_key
                            /\ o.content_type = "video/mp4"
                    /\ \E o \in r2_store :
                            /\ o.key = v.row.r2_thumb_key
                            /\ o.content_type = "image/jpeg"
                    /\ v.row.width = out_info.width
                    /\ v.row.height = out_info.height
                    /\ v.row.width <= inp.width
                    /\ v.row.height <= inp.height

\* a live run ended Done with its row and both objects
C30_Witness ==
    /\ pc = "Done" /\ ~args.dry_run
    /\ Cardinality(videos) = 1
    /\ Cardinality(r2_store) = 2

\* the keys a second installation may hash tags with
OtherHmacKeys ==
    {k \in HmacKeys : k.b64 /\ k.id # None}
    \cup {[id |-> "h32-other", len |-> 32, b64 |-> TRUE]}

\* C27: normalizing a normalized token returns it unchanged, so the digest
\* stored for a token is the hash of that token under the run's key; two raw
\* tags with the same normalized token have the same digest under the same
\* key, and a token's digest under any other key differs from the stored one.
C27_TagDigests ==
    Len(tag_hmacs) > 0 =>
        \A raw \in {RawTags(args.tags)} :
            /\ \A i \in 1..Len(raw) :
                    normalize_tag(normalize_tag(raw[i])) = normalize_tag(raw[i])
            /\ Len(tag_hmacs) = Len(tag_tokens)
            /\ \A i \in 1..Len(tag_tokens) :
                    /\ normalize_tag(tag_tokens[i]) = tag_tokens[i]
                    /\ tag_hmacs[i] = hmac_sha256(keys.tag.id, tag_tokens[i])
                    /\ \A k \in OtherHmacKeys \ {keys.tag} :
                            compute_tag_hmac_hex(tag_tokens[i], k).digest
                                # tag_hmacs[i]
            /\ \A i, j \in 1..Len(raw) :
                    (normalize_tag(raw[i]) = normalize_tag(raw[j])
                        /\ normalize_tag(raw[i]) # <<>>) =>
                    /\ compute_tag_hmac_hex(raw[i], keys.tag).digest
                            = compute_tag_hmac_hex(raw[j], keys.tag).digest
                    /\ \E n \in 1..Len(tag_hmacs) :
                            tag_hmacs[n]
                                = compute_tag_hmac_hex(raw[i], keys.tag).digest

\* "B, b ,,s" was indexed: the raw tags "B" and "b" got one digest
C27_Witness ==
    /\ Len(tag_hmacs) = 3
    /\ tag_hmacs[1] = tag_hmacs[2]
    /\ tag_hmacs[1] # tag_hmacs[3]
    /\ \E raw \in {RawTags(args.tags)} : raw[1] # raw[2]

\* the position of a statement in the program text
Pos(p) == IF p = "Failed" THEN Len(Order) + 1
          ELSE CHOOSE k \in 1..Len(Order) : Order[k] = p

\* C29: every run terminates: when each external call returns or fails,
\* the run eventually reaches Done or Failed.
C29_Terminates == <>(pc \in Terminal)

\* every step moves control forward in the program text, so no statement is
\* executed twice
C29_Progress == [][Pos(pc') > Pos(pc)]_vars

\* a live run went through every statement and ended Done
C29_Witness ==
    /\ pc = "Done"
    /\ ~args.dry_run
    /\ Len(sb_calls) = 2
    /\ Len(r2_calls) = 2
    /\ Len(ffmpeg_log) = 2

\* C25: two ingestions running at the same time share no mutable state:
\* each has its own temporary directory and its own fresh object id, the
\* files in a run's directory are the ones it wrote, a run reads only what it
\* wrote, its directory is there for as long as it is inside the with block,
\* the objects under its keys carry its own files, and a run that ends Done
\* has both its objects in the bucket, as it would running alone.
C25_NoSharedState ==
    /\ \A r \in Runs :
        /\ runs[r].read \subseteq {r}
        /\ runs[r].pc \in InBlock =>
                /\ tmp[runs[r].td].exists
                /\ tmp[runs[r].td].out_mp4 \in {NoFile, r}
                /\ tmp[runs[r].td].thumb_jpg \in {NoFile, r}
                /\ runs[r].pc \notin {"transcode"} =>
                        tmp[runs[r].td].out_mp4 = r
                /\ runs[r].pc \in {"prepare_keys", "upload_video",
                                   "upload_thumb"} =>
                        tmp[runs[r].td].thumb_jpg = r
        /\ \A o \in bucket :
                o.key \in {runs[r].obj.video_key, runs[r].obj.thumb_key} =>
                    o.body = r
        /\ runs[r].pc = "Done" =>
                /\ \E o \in bucket : o.key = runs[r].obj.video_key
                /\ \E o \in bucket : o.key = runs[r].obj.thumb_key
    /\ \A r, q \in Runs :
        r # q =>
            /\ (runs[r].pc \in InBlock /\ runs[q].pc \in InBlock) =>
                    runs[r].td # runs[q].td
            /\ (runs[r].obj # NoObj /\ runs[q].obj # NoObj) =>
                    /\ runs[r].obj.obj_id # runs[q].obj.obj_id
                    /\ {runs[r].obj.video_key, runs[r].obj.thumb_key}
                            \cap {runs[q].obj.video_key, runs[q].obj.thumb_key}
                        = {}

\* both runs are inside their with blocks, both with files on disk
C25_Witness ==
    /\ runs["single"].pc = "upload_thumb"
    /\ runs["bulk"].pc = "thumbnail"
    /\ tmp[runs["bulk"].td].out_mp4 = "bulk"
    /\ Cardinality(bucket) = 1

\* both runs ended Done, four objects in the bucket
C25_WitnessBothDone ==
    /\ \A r \in Runs : runs[r].pc = "Done"
    /\ Cardinality(bucket) = 4

\* the bulk run's events without the stop requests
WorkerTrace == SelectSeq(trace, LAMBDA e : e.ev # "stop")

\* C23: in the bulk queue a stop request is examined only between items
\* (never while an ingestion is in flight), an ingestion that has started is
\* followed by its own completion or failure whatever is requested meanwhile,
\* and once the stop has been observed no further item is started.
C23_CooperativeStop ==
    \A w \in {WorkerTrace} :
        /\ \A i \in 1..Len(w) :
            /\ w[i].ev = "observed" =>
                    /\ i = Len(w)
                    /\ i > 1 => w[i - 1].ev = "end"
                    /\ worker.pc \in {"summary", "exited"}
                    /\ should_stop
                    /\ \E j \in 1..Len(trace) : trace[j].ev = "stop"
            /\ w[i].ev = "start" =>
                    IF i = Len(w) THEN worker.pc = "ingest"
                    ELSE w[i + 1].ev = "end" /\ w[i + 1].item = w[i].item
            /\ w[i].ev = "end" => i > 1 /\ w[i - 1].ev = "start"
        /\ worker.pc = "ingest" =>
                Len(w) > 0 /\ w[Len(w)].ev = "start"
        /\ worker.pc \in {"summary", "exited"} =>
                Cardinality({i \in 1..Len(w) : w[i].ev = "start"})
                    = worker.completed + worker.failed

\* stop was requested while the first of three items was in flight: the item
\* completed, the stop was observed, and the other two were never started
C23_Witness ==
    /\ Len(worker.items) = 3
    /\ Len(trace) = 4
    /\ trace[1].ev = "start"
    /\ trace[2].ev = "stop"
    /\ trace[3].ev = "end" /\ trace[3].ok
    /\ trace[4].ev = "observed"
    /\ worker.pc = "exited"
    /\ worker.skipped = 2

\* the options with the dry-run flag the other way round
FlipDry(a) == [a EXCEPT !.dry_run = ~a.dry_run]

\* the statements that put an object, test the flag, or come after the test
StoreSteps ==
    {"upload_video", "upload_thumb", "dry_check", "insert_video",
     "insert_tags", "finish"}

\* a step of any other statement, taken with options a
StepWith(a) ==
    \/ CheckSource
    \/ EnsureFfmpeg
    \/ ProbeInput
    \/ PlanWith(a)
    \/ CreateWorkspace
    \/ TranscodeWith(a)
    \/ ProbeOutput
    \/ Validate
    \/ Thumbnail
    \/ ReadKeys
    \/ EncryptTitleWith(a)
    \/ IndexTagsWith(a)
    \/ PrepareKeys
    \/ R2Config
    \/ SbClient
    \/ BuildRow

\* C24: a dry run and a live run of the same input and options take the
\* same steps with the same outcomes from probing through tag indexing (and
\* in every statement that is not a store call): each step one mode takes,
\* failures with their message and exit code included, is a step of the other
\* mode too.  They differ only in that the dry run issues no put and no
\* insert and leaves both stores as they were.
C24_DryLiveAgree ==
    /\ [][pc \notin StoreSteps => StepWith(FlipDry(args))]_vars
    /\ [](args.dry_run =>
            /\ r2_calls = <<>> /\ r2_store = {}
            /\ sb_calls = <<>> /\ videos = {} /\ video_tag_tokens = <<>>)

\* a dry run failed in the encoder, as a live run does
C24_Witness ==
    /\ args.dry_run
    /\ pc = "Failed"
    /\ error = "Command failed: ffmpeg transcode"
    /\ exit_code = 1

\* a dry run got through tag indexing and on to the simulated uploads
C24_WitnessIndexed ==
    /\ args.dry_run
    /\ pc = "upload_thumb"
    /\ Len(tag_hmacs) > 0

\* the bulk tab at rest: a run can be started
TabIdle ==
    /\ ~is_processing
    /\ start_btn = "normal"
    /\ test_btn = "normal"
    /\ stop_btn = "disabled"

\* C31: every bulk run, whether it went through all its items, was stopped
\* or had failed items, is followed by the tab being idle again:
\* is_processing false, the start and the test button enabled, the stop
\* button disabled.
C31_ReturnsToIdle == is_processing ~> TabIdle

\* the buttons always agree with is_processing, and a run is in progress
\* exactly from _run_upload until _upload_finished has run
C31_ButtonsAgree ==
    /\ is_processing =>
            /\ start_btn = "disabled" /\ test_btn = "disabled"
            /\ stop_btn = "normal"
            /\ worker.pc # "none"
            /\ worker.pc = "exited" => after_q = <<"_upload_finished">>
    /\ ~is_processing =>
            /\ TabIdle
            /\ worker.pc \in {"none", "exited"}
            /\ after_q = <<>>

\* a run that was stopped after a failed item has ended and the tab is idle
C31_Witness ==
    /\ TabIdle
    /\ worker.pc = "exited"
    /\ worker.failed = 1
    /\ worker.skipped > 0
    /\ \E i \in 1..Len(trace) : trace[i].ev = "observed"

\* a run that went through all three items has ended and the tab is idle
C31_WitnessAll ==
    /\ TabIdle
    /\ worker.pc = "exited"
    /\ Len(worker.items) = 3
    /\ worker.completed + worker.failed = 3

\* the events of one kind in the current bulk run
EventsOf(ev) == SelectSeq(trace, LAMBDA e : e.ev = ev)

\* C32: a bulk run takes the items of its snapshot one at a time in list
\* order: the items started so far are the first items of the snapshot, each
\* once, and an item is started only after the one before it has ended; a
\* failed item is counted and the next one is taken, so a run that ends
\* without having observed a stop has started every item; a new run cannot
\* be started while the thread is alive; at the end completed, failed and
\* skipped count the items that ended well, ended badly and were never
\* started, and add up to the size of the snapshot.
C32_OneAtATimeInOrder ==
    \A st \in {EventsOf("start")} : \A en \in {EventsOf("end")} :
        /\ Len(st) <= Len(worker.items)
        /\ \A i \in 1..Len(st) : st[i].item = worker.items[i]
        /\ \A i, j \in 1..Len(st) : i # j => st[i].item # st[j].item
        /\ Len(en) = worker.idx
        /\ \A i \in 1..Len(en) : en[i].item = st[i].item
        /\ Len(st) = IF worker.pc = "ingest" THEN Len(en) + 1 ELSE Len(en)
        /\ worker.completed
                = Cardinality({i \in 1..Len(en) : en[i].ok})
        /\ worker.failed
                = Cardinality({i \in 1..Len(en) : ~en[i].ok})
        /\ (worker.pc \in {"summary", "exited"}
                /\ EventsOf("observed") = <<>>) =>
                Len(st) = Len(worker.items)
        /\ (start_btn = "normal" \/ test_btn = "normal") =>
                worker.pc \in {"none", "exited"}
        /\ worker.pc = "exited" =>
                /\ worker.skipped = Len(worker.items) - Len(st)
                /\ worker.completed + worker.failed + worker.skipped
                        = Len(worker.items)

\* the first of three items failed and the other two were still ingested
C32_Witness ==
    /\ worker.pc = "exited"
    /\ Len(worker.items) = 3
    /\ Len(EventsOf("end")) = 3
    /\ ~EventsOf("end")[1].ok
    /\ EventsOf("end")[2].ok
    /\ worker.completed = 2 /\ worker.failed = 1 /\ worker.skipped = 0

\* one item completed, one failed, and the third was skipped after a stop
C32_WitnessSkipped ==
    /\ worker.pc = "exited"
    /\ worker.completed = 1 /\ worker.failed = 1 /\ worker.skipped = 1

====
